---- MODULE Spec2Model ----
(***************************************************************************)
(* A model of bitblock-parser (package blockchain_parser): the chain       *)
(* reconstructor of blockchain.py, the .blk file scanner, the transaction  *)
(* decoder and the script classifier.                                      *)
(***************************************************************************)
EXTENDS Integers, Sequences, FiniteSets, TLC

VARIABLES
    db,            \* index stores: path -> block-index records in key order
    disk,          \* block directory: file name -> set of framed blocks
    blockIndexes,  \* Blockchain.blockIndexes (<<>> wraps None as the empty tuple)
    indexPath,     \* Blockchain.indexPath ("" is None)
    cacheFiles,    \* cache path -> pickled bytes, <<>> wrapped; Absent when no file
    cacheSrc,      \* history: cache path -> index path of the call that wrote it
    callsLeft,     \* calls of get_ordered_blocks still to be made
    handles,       \* plyvel.DB handles __get_block_indexes opened and never closed
    lastCall,      \* arguments of the last call of get_ordered_blocks
    res,           \* what the last call did
    path,          \* Blockchain.path, a string as the tuple of its character codes
    isdir,         \* stat.S_ISDIR of path
    listdir,       \* os.listdir(path), in the order the file system gives
    content,       \* full path -> the bytes of that file
    files,         \* get_unordered_blocks: the files still to scan
    blk_file,      \* get_unordered_blocks: the file being scanned
    offset,        \* get_blocks: offset
    upc,           \* get_unordered_blocks: where the iteration stands
    unordered,     \* get_unordered_blocks: the blocks yielded so far
    txBuffer,      \* the buffer given to Transaction.from_bytes
    txShape,       \* history: the transaction the buffer was made from
    tx,            \* the Transaction object
    txVsize,       \* the value read from Transaction.vsize, <<>> before
    tpc,           \* where the decoding stands
    outScript,     \* TxOutput._script_raw of the output classified
    outType,       \* what TxOutput.script_type gave: a label or an error, "" before
    outAddresses,  \* what TxOutput.addresses gave: an error or a list
    outMultisig,   \* what Script.is_multisig gave: a bool or an error, "" before
    outValue,      \* what Script.value gave, <<>> before
    spc,           \* where the classification stands
    decData,       \* the bytes given to a decoder (varint, TxInput, TxOutput)
    decResult,     \* what the decoder gave
    dpc,           \* where the decoding of decData stands
    blkRaw,        \* the raw bytes of a block (Block.raw)
    blkShape,      \* history: the transactions the block was made of
    bLeft,         \* get_block_transactions: iterations of range(n_transactions) left
    bOffset,       \* get_block_transactions: offset
    bTransaction,  \* get_block_transactions: transaction, <<>> while unbound
    bYielded,      \* the transactions yielded so far, each with the offset it was read at
    bTried,        \* history: the offsets the retry ladder was run at
    gtOffset,      \* get_transaction: tx_idx.block_offset, -1 before the call
    gtResult,      \* get_transaction: what it returned, <<>> for None
    bpc            \* where get_block_transactions / get_transaction stands

chainVars ==
    <<db, disk, blockIndexes, indexPath, cacheFiles, cacheSrc, callsLeft, handles,
      lastCall, res>>

scanVars == <<path, isdir, listdir, content, files, blk_file, offset, upc, unordered>>

txVars == <<txBuffer, txShape, tx, txVsize, tpc>>

scriptVars == <<outScript, outType, outAddresses, outMultisig, outValue, spc>>

decVars == <<decData, decResult, dpc>>

blockVars ==
    <<blkRaw, blkShape, bLeft, bOffset, bTransaction, bYielded, bTried, gtOffset,
      gtResult, bpc>>

vars == <<chainVars, scanVars, txVars, scriptVars, decVars, blockVars>>

(***************************************************************************)
(* Bounds of the model.                                                    *)
(***************************************************************************)
\* longest main chain of an index scenario
MaxChain == 8
\* heights 1..MaxForkHeight may carry side (fork) records
MaxForkHeight == 2
\* largest start / end argument of get_ordered_blocks
MaxArg == 3
\* side records of an index scenario
MaxForks == 2
\* calls of get_ordered_blocks on one Blockchain object
MaxCalls == 2

(***************************************************************************)
(* Python helpers.                                                         *)
(***************************************************************************)
Min(a, b) == IF a < b THEN a ELSE b
Max(a, b) == IF a > b THEN a ELSE b

\* one bound of a Python slice, as slice.indices() normalises it
PyIndex(i, n) == IF i < 0 THEN Max(i + n, 0) ELSE Min(i, n)

\* s[a:b] of a Python sequence (0-based bounds, negative ones count from the end)
PySlice(s, a, b) ==
    LET lo == PyIndex(a, Len(s))
        hi == PyIndex(b, Len(s))
    IN  IF lo >= hi THEN <<>> ELSE SubSeq(s, lo + 1, hi)

\* mutant: the list is left in ascending order
NotReversed(s) == s

\* s[::-1]
Reverse(s) == [i \in 1..Len(s) |-> s[Len(s) + 1 - i]]

\* the elements of a sequence
Range(s) == {s[i] : i \in 1..Len(s)}

(***************************************************************************)
(* blockchain.py: get_block and the block directory.                       *)
(***************************************************************************)
\* the path the fork probe opens: a plain string literal, nothing substituted
TemplateName == "blk{index.file:05d}.dat"

\* f'blk{file:05d}.dat'
BlkName(n) ==
    CASE n = 0 -> "blk00000.dat"
      [] n = 1 -> "blk00001.dat"
      [] OTHER -> "blk0000N.dat"

\* get_block(block_file, offset): the block framed at offset, or an error
\* (FileNotFoundError, or struct.error when no size field lies before offset)
get_block(d, block_file, data_offset) ==
    IF block_file \notin DOMAIN d
        THEN [ok |-> FALSE, hash |-> 0, prev |-> 0]
    ELSE IF \E b \in d[block_file] : b.pos = data_offset
        THEN LET b == CHOOSE b \in d[block_file] : b.pos = data_offset
             IN  [ok |-> TRUE, hash |-> b.hash, prev |-> b.prev]
    ELSE [ok |-> FALSE, hash |-> 0, prev |-> 0]

(***************************************************************************)
(* index.py / blockchain.py: the block index of a store.                   *)
(***************************************************************************)
\* a DBBlockIndex: hash, height, file and data_pos (-1 when not available)
Rec(hash, height, file, data_pos) ==
    [hash |-> hash, height |-> height, file |-> file, data_pos |-> data_pos]

\* list.sort(key=lambda x: x.height): stable, so x goes behind its equals
InsertByHeight(sorted, x) ==
    LET n == Cardinality({i \in 1..Len(sorted) : sorted[i].height <= x.height})
    IN  SubSeq(sorted, 1, n) \o <<x>> \o SubSeq(sorted, n + 1, Len(sorted))

RECURSIVE SortByHeight(_)
SortByHeight(s) ==
    IF s = <<>> THEN <<>>
    ELSE InsertByHeight(SortByHeight(SubSeq(s, 1, Len(s) - 1)), s[Len(s)])

\* mutant: the decoded records are memoized without the sort by height
GetBlockIndexesNoSort(memo, memoPath, stores, index) ==
    IF memoPath # index
        THEN [list |-> stores[index], opened |-> TRUE,
              memo |-> <<stores[index]>>, memoPath |-> index]
        ELSE [list |-> memo[1], opened |-> FALSE,
              memo |-> memo, memoPath |-> memoPath]

\* Blockchain.__get_block_indexes(index): the memoized sorted index; the
\* store is opened and decoded only when the memo is of another path
GetBlockIndexes(memo, memoPath, stores, index) ==
    IF memoPath # index
        THEN [list |-> SortByHeight(stores[index]), opened |-> TRUE,
              memo |-> <<SortByHeight(stores[index])>>, memoPath |-> index]
        ELSE [list |-> memo[1], opened |-> FALSE,
              memo |-> memo, memoPath |-> memoPath]

(***************************************************************************)
(* blockchain.py: the fork probe.                                          *)
(***************************************************************************)
num_confirmations == 6

\* the loop `for chain in chains` of _index_confirmed, from chain j on:
\* extends every chain whose tip is the block's parent and decides at the
\* first chain that holds num_confirmations hashes
RECURSIVE ChainLoop(_, _, _, _)
ChainLoop(chains, j, blk, first) ==
    IF j > Len(chains) THEN [decided |-> FALSE, value |-> "None", chains |-> chains]
    ELSE LET c  == chains[j]
             c2 == IF c[Len(c)] = blk.prev THEN Append(c, blk.hash) ELSE c
         IN  IF Len(c2) = num_confirmations
                 THEN [decided |-> TRUE,
                       value |-> IF first \in Range(c2) THEN "True" ELSE "False",
                       chains |-> chains]
                 ELSE ChainLoop([chains EXCEPT ![j] = c2], j + 1, blk, first)

\* the loop `for i, index in enumerate(chain_indexes)` from record i on
RECURSIVE ProbeFrom(_, _, _, _, _)
ProbeFrom(d, chain_indexes, i, chains, first) ==
    IF i > Len(chain_indexes) THEN "None"
    ELSE LET index == chain_indexes[i] IN
         IF index.file = -1 \/ index.data_pos = -1 THEN "False"
         ELSE LET blk == get_block(d, TemplateName, index.data_pos) IN
              IF ~blk.ok THEN "raise"
              ELSE LET first2 == IF i = 1 THEN blk.hash ELSE first
                       r == ChainLoop(Append(chains, <<blk.hash>>), 1, blk, first2)
                   IN  IF r.decided THEN r.value
                       ELSE ProbeFrom(d, chain_indexes, i + 1, r.chains, first2)

\* mutant: a list that runs out before a decision counts as a confirmation
IndexConfirmedAtEnd(d, chain_indexes) ==
    IF ProbeFrom(d, chain_indexes, 1, <<>>, 0) = "None" THEN "True"
    ELSE ProbeFrom(d, chain_indexes, 1, <<>>, 0)

\* Blockchain._index_confirmed(chain_indexes): "True", "False", "None" (the
\* loop ran out: the function falls off its end) or "raise"
IndexConfirmed(d, chain_indexes) == ProbeFrom(d, chain_indexes, 1, <<>>, 0)

\* the pruning loop of get_ordered_blocks from record i on
RECURSIVE PruneFrom(_, _, _, _, _)
PruneFrom(d, block_indexes, i, last_height, orphans) ==
    IF i > Len(block_indexes) THEN [error |-> FALSE, orphans |-> orphans]
    ELSE LET block_index == block_indexes[i] IN
         IF last_height > -1 /\ block_index.height = last_height
             THEN LET c == IndexConfirmed(d, SubSeq(block_indexes, i, Len(block_indexes)))
                  IN  IF c = "raise" THEN [error |-> TRUE, orphans |-> orphans]
                      ELSE PruneFrom(d, block_indexes, i + 1, block_index.height,
                               Append(orphans, IF c = "True"
                                                   THEN block_indexes[i - 1].hash
                                                   ELSE block_index.hash))
             ELSE PruneFrom(d, block_indexes, i + 1, block_index.height, orphans)

\* mutant: a record without data is passed over and the loop goes on
RECURSIVE YieldFromSkipping(_, _, _)
YieldFromSkipping(d, sel, out) ==
    IF sel = <<>> THEN [error |-> FALSE, yielded |-> out]
    ELSE LET block_index == Head(sel) IN
         IF block_index.file = -1 \/ block_index.data_pos = -1
             THEN YieldFromSkipping(d, Tail(sel), out)
         ELSE LET blk == get_block(d, BlkName(block_index.file), block_index.data_pos)
              IN  IF ~blk.ok THEN [error |-> TRUE, yielded |-> out]
                  ELSE YieldFromSkipping(d, Tail(sel),
                           Append(out, [hash |-> blk.hash, height |-> block_index.height]))

\* the yielding loop of get_ordered_blocks over block_indexes[start:end]
RECURSIVE YieldFrom(_, _, _)
YieldFrom(d, sel, out) ==
    IF sel = <<>> THEN [error |-> FALSE, yielded |-> out]
    ELSE LET block_index == Head(sel) IN
         IF block_index.file = -1 \/ block_index.data_pos = -1
             THEN [error |-> FALSE, yielded |-> out]
         ELSE LET blk == get_block(d, BlkName(block_index.file), block_index.data_pos)
              IN  IF ~blk.ok THEN [error |-> TRUE, yielded |-> out]
                  ELSE YieldFrom(d, Tail(sel),
                           Append(out, [hash |-> blk.hash, height |-> block_index.height]))

\* get_ordered_blocks from the pruning on (lines 271-303), on the loaded
\* block_indexes; end is <<>> for None and <<n>> for n
OrderedBlocks(d, block_indexes, start, end) ==
    LET pr    == PruneFrom(d, block_indexes, 1, -1, <<>>)
        kept  == SelectSeq(block_indexes, LAMBDA b : b.hash \notin Range(pr.orphans))
        end1  == IF end = <<>> THEN Len(kept) ELSE end[1]
        rev   == end1 < start
        list2 == IF rev THEN Reverse(kept) ELSE kept
        start2 == IF rev THEN Len(kept) - start ELSE start
        end2   == IF rev THEN Len(kept) - end1 ELSE end1
        y     == YieldFrom(d, PySlice(list2, start2, end2), <<>>)
    IN  IF pr.error
            THEN [error |-> TRUE, orphans |-> pr.orphans, kept |-> <<>>, yielded |-> <<>>]
            ELSE [error |-> y.error, orphans |-> pr.orphans, kept |-> kept,
                  yielded |-> y.yielded]

(***************************************************************************)
(* blockchain.py: the index cache (pickle.dump / pickle.load).             *)
(***************************************************************************)
\* pickle.dump(block_indexes): the records' fields written out one by one
RECURSIVE Pickle(_)
Pickle(list) ==
    IF list = <<>> THEN <<>>
    ELSE <<Head(list).hash, Head(list).height, Head(list).file, Head(list).data_pos>>
             \o Pickle(Tail(list))

\* pickle.load: the records read back, four fields each
RECURSIVE Unpickle(_)
Unpickle(bytes) ==
    IF Len(bytes) < 4 THEN <<>>
    ELSE <<Rec(bytes[1], bytes[2], bytes[3], bytes[4])>>
             \o Unpickle(SubSeq(bytes, 5, Len(bytes)))

\* Blockchain.get_ordered_blocks(index, start, end, cache), run to the end of
\* the iteration; cache is <<>> for None and <<path>> for a path
GetOrderedBlocksCall(index, start, end, cache) ==
    LET hit   == cache # <<>> /\ cacheFiles[cache[1]] # <<>>
        write == ~hit /\ cache # <<>>
    IN  /\ callsLeft > 0
        /\ \E g \in {GetBlockIndexes(blockIndexes, indexPath, db, index)} :
           \E block_indexes \in {IF hit THEN Unpickle(cacheFiles[cache[1]][1]) ELSE g.list} :
           \E ob \in {OrderedBlocks(disk, block_indexes, start, end)} :
             /\ callsLeft' = callsLeft - 1
             /\ blockIndexes' = IF hit THEN blockIndexes ELSE g.memo
             /\ indexPath' = IF hit THEN indexPath ELSE g.memoPath
             /\ cacheFiles' =
                  IF write
                      THEN [cacheFiles EXCEPT ![cache[1]] = <<Pickle(block_indexes)>>]
                      ELSE cacheFiles
             /\ cacheSrc' = IF write THEN [cacheSrc EXCEPT ![cache[1]] = index]
                                      ELSE cacheSrc
             /\ lastCall' = [index |-> index, start |-> start, end |-> end,
                             cache |-> cache]
             /\ res' = [error |-> ob.error, orphans |-> ob.orphans, kept |-> ob.kept,
                        yielded |-> ob.yielded, loaded |-> block_indexes,
                        hit |-> hit, opened |-> ~hit /\ g.opened, wrote |-> write]
             /\ UNCHANGED <<db, disk, handles, scanVars, txVars, scriptVars, decVars, blockVars>>

(***************************************************************************)
(* The block indexes and block directories the calls are made on: a main   *)
(* chain of len blocks from height base, side blocks that fork off it,     *)
(* and at most one record whose data is not on disk.                       *)
(***************************************************************************)
\* key of a block in the store: the store iterates in ascending key order,
\* which is not the order of heights (slot 5 is the main chain)
HashOf(height, slot) == 100 * slot + (99 - height)
HeightOf(hash) == 99 - (hash % 100)
SlotOf(hash) == hash \div 100

\* the header's previous_block_hash: the main-chain block one below
PrevOf(hash) == IF HeightOf(hash) = 0 THEN 0 ELSE HashOf(HeightOf(hash) - 1, 5)

ForkSets == {f \in SUBSET ((1..MaxForkHeight) \X {2, 3, 8}) : Cardinality(f) <= MaxForks}

\* the hashes of a scenario
HashesOf(base, len, forks) ==
    {HashOf(base + k, 5) : k \in 0..(len - 1)}
        \cup {HashOf(base + f[1], f[2]) : f \in {g \in forks : g[1] <= len - 1}}

\* a set of hashes as the sequence in ascending order
RECURSIVE Ascending(_)
Ascending(S) ==
    IF S = {} THEN <<>>
    ELSE LET m == CHOOSE x \in S : \A y \in S : x <= y
         IN  <<m>> \o Ascending(S \ {m})

\* where the block's data lies in blk00000.dat
DataPos(hash) == 8 + 1000 * hash

\* the record of a hash; nodata is <<>> or <<hash, kind>>: kind "none" has
\* neither data nor undo (file -1), kind "undo" has undo data only
RecordOf(hash, nodata) ==
    IF nodata # <<>> /\ nodata[1] = hash
        THEN Rec(hash, HeightOf(hash), IF nodata[2] = "none" THEN -1 ELSE 0, -1)
        ELSE Rec(hash, HeightOf(hash), 0, DataPos(hash))

StoreOf(H, nodata) == [i \in 1..Cardinality(H) |-> RecordOf(Ascending(H)[i], nodata)]

\* the blocks framed in blk00000.dat: those of the records that have data
BlocksOf(H, nodata) ==
    {[pos |-> DataPos(h), hash |-> h, prev |-> PrevOf(h)] :
        h \in {x \in H : nodata = <<>> \/ nodata[1] # x}}

\* the directory; template says whether it also holds a file named by the
\* unformatted template, with the content of blk00000.dat
DiskOf(H, nodata, template) ==
    IF template
        THEN [n \in {BlkName(0), TemplateName} |-> BlocksOf(H, nodata)]
        ELSE [n \in {BlkName(0)} |-> BlocksOf(H, nodata)]

NoDataChoices(H, base) ==
    {<<>>} \cup {<<h, k>> : h \in {x \in H : HeightOf(x) <= base + MaxForkHeight + 1},
                            k \in {"none", "undo"}}

\* a short chain, one that confirms a fork at the highest fork height, and
\* one that is a block short of that
ChainLens == {MaxForkHeight, MaxChain - 1, MaxChain}

CachePaths == {"c1", "c2"}

NoCall == [index |-> "", start |-> 0, end |-> <<>>, cache |-> <<>>]
NoRes == [error |-> FALSE, orphans |-> <<>>, kept |-> <<>>, yielded |-> <<>>,
          loaded |-> <<>>, hit |-> FALSE, opened |-> FALSE, wrote |-> FALSE]

\* a fresh Blockchain object, no cache file written yet
\* a Transaction that could not be built
NoTransaction ==
    [ok |-> FALSE, is_segwit |-> FALSE, n_inputs |-> 0, inputs |-> <<>>,
     n_outputs |-> 0, outputs |-> <<>>, offset_before_tx_witnesses |-> <<>>,
     size |-> 0, raw |-> <<>>]

\* no buffer is decoded
NoShape ==
    [segwit |-> FALSE, n_in |-> 0, n_out |-> 0, items |-> 0, len |-> 0,
     wide |-> FALSE, full |-> 0, skew |-> 0]

\* no transaction is decoded
TxIdle ==
    /\ txBuffer = <<>>
    /\ txShape = NoShape
    /\ tx = NoTransaction
    /\ txVsize = <<>>
    /\ tpc = "idle"

\* a decoder result: the value and the bytes consumed, or an error
NoResult == [ok |-> FALSE, value |-> 0, size |-> 0]

\* no varint is decoded
DecIdle ==
    /\ decData = <<>>
    /\ decResult = NoResult
    /\ dpc = "idle"

\* no block is read
BlockIdle ==
    /\ blkRaw = <<>>
    /\ blkShape = <<>>
    /\ bLeft = 0
    /\ bOffset = 0
    /\ bTransaction = <<>>
    /\ bYielded = <<>>
    /\ bTried = <<>>
    /\ gtOffset = -1
    /\ gtResult = <<>>
    /\ bpc = "idle"

\* no script is classified
ScriptIdle ==
    /\ outScript = <<>>
    /\ outType = ""
    /\ outAddresses = [error |-> "", list |-> <<>>]
    /\ outMultisig = ""
    /\ outValue = <<>>
    /\ spc = "idle"

\* no block file is scanned
ScanIdle ==
    /\ path = <<>>
    /\ isdir = FALSE
    /\ listdir = <<>>
    /\ content = <<>>
    /\ files = <<>>
    /\ blk_file = <<>>
    /\ offset = 0
    /\ upc = "idle"
    /\ unordered = <<>>

FreshObject ==
    /\ blockIndexes = <<>>
    /\ indexPath = ""
    /\ cacheFiles = [c \in CachePaths |-> <<>>]
    /\ cacheSrc = [c \in CachePaths |-> ""]
    /\ lastCall = NoCall
    /\ res = NoRes
    /\ handles = 0

Init ==
    /\ \E base \in 0..1, len \in ChainLens, forks \in ForkSets, template \in BOOLEAN :
         /\ \A f \in forks : f[1] <= len - 1
         /\ \E nodata \in NoDataChoices(HashesOf(base, len, forks), base) :
              /\ db = [p \in {"idx1"} |-> StoreOf(HashesOf(base, len, forks), nodata)]
              /\ disk = DiskOf(HashesOf(base, len, forks), nodata, template)
    /\ FreshObject
    /\ callsLeft = 1
    /\ ScanIdle
    /\ TxIdle
    /\ ScriptIdle
    /\ DecIdle
    /\ BlockIdle

Next ==
    \E start \in 0..MaxArg, end \in {<<>>} \cup {<<n>> : n \in 0..MaxArg} :
        GetOrderedBlocksCall("idx1", start, end, <<>>)

Spec == Init /\ [][Next]_vars

\* the scenarios of Init with at most one side block
InitOneFork ==
    /\ \E base \in 0..1, len \in ChainLens, forks \in ForkSets, template \in BOOLEAN :
         /\ Cardinality(forks) <= 1
         /\ \A f \in forks : f[1] <= len - 1
         /\ \E nodata \in NoDataChoices(HashesOf(base, len, forks), base) :
              /\ db = [p \in {"idx1"} |-> StoreOf(HashesOf(base, len, forks), nodata)]
              /\ disk = DiskOf(HashesOf(base, len, forks), nodata, template)
    /\ FreshObject
    /\ callsLeft = 1
    /\ ScanIdle
    /\ TxIdle
    /\ ScriptIdle
    /\ DecIdle
    /\ BlockIdle

SpecOneFork == InitOneFork /\ [][Next]_vars

(***************************************************************************)
(* Claims about get_ordered_blocks.                                        *)
(***************************************************************************)
\* a call has been made and ran to its end
Called == lastCall.index # ""

\* the sorted index of the store the last call named
SortedIndex == SortByHeight(db[lastCall.index])

\* the call's bounds satisfy start <= end (no end: the end of the pruned list)
ForwardCall ==
    IF lastCall.end = <<>> THEN lastCall.start <= Len(res.kept)
    ELSE lastCall.start <= lastCall.end[1]

\* C1: the heights of the blocks get_ordered_blocks yields for start <= end
\* are strictly increasing, whatever the index (three records at one height
\* included).
C1_StrictlyAscending ==
    (Called /\ ForwardCall) =>
        \A i \in 1..Len(res.yielded), j \in 1..Len(res.yielded) :
            i < j => res.yielded[i].height < res.yielded[j].height

\* there is a chain of n blocks on disk that starts with block h, each the
\* parent of the next
RECURSIVE ChainFrom(_, _)
ChainFrom(h, n) ==
    /\ \E b \in disk[BlkName(0)] : b.hash = h
    /\ n > 1 => \E b \in disk[BlkName(0)] : b.prev = h /\ ChainFrom(b.hash, n - 1)

\* the records of the sorted index at height H
AtHeight(H) == {i \in 1..Len(SortedIndex) : SortedIndex[i].height = H}

\* the sorted index holds two records at height H, and no other pair of equal
\* heights; a chain of num_confirmations blocks runs through the one, keep
ForkAt(H, keep, other) ==
    /\ {SortedIndex[i].hash : i \in AtHeight(H)} = {keep, other}
    /\ keep # other
    /\ \A G \in 0..(MaxChain + 1) : G # H => Cardinality(AtHeight(G)) <= 1
    /\ ChainFrom(keep, num_confirmations)
    /\ ~ChainFrom(other, 2)

\* C2: with two records at height H and a chain of num_confirmations blocks
\* through one of them, get_ordered_blocks(H, H+1) completes without error,
\* records the other record as an orphan, removes it, and yields the kept
\* block exactly once.
C2_ForkPruned ==
    Called =>
        \A H \in 0..MaxForkHeight + 1 :
            \A keep \in {r.hash : r \in Range(SortedIndex)},
               other \in {r.hash : r \in Range(SortedIndex)} :
                (/\ lastCall.start = H /\ lastCall.end = <<H + 1>>
                 /\ ForkAt(H, keep, other))
                =>
                (/\ ~res.error
                 /\ other \in Range(res.orphans)
                 /\ other \notin {r.hash : r \in Range(res.kept)}
                 /\ res.yielded = <<[hash |-> keep, height |-> H]>>)

\* every record of the loaded index has its data on disk
AllData == \A r \in Range(res.loaded) : r.file # -1 /\ r.data_pos # -1

\* the height h lies in the call's range [start, end)
InRange(h) ==
    /\ lastCall.start <= h
    /\ lastCall.end # <<>> => h < lastCall.end[1]

\* C3: start and end are heights: for start <= end and an index whose
\* records all have data, the blocks yielded are exactly the un-pruned
\* records with start <= height < end.
C3_BoundsAreHeights ==
    (Called /\ ~res.error /\ ForwardCall /\ AllData) =>
        res.yielded =
            [i \in 1..Len(SelectSeq(res.kept, LAMBDA r : InRange(r.height))) |->
                [hash |-> SelectSeq(res.kept, LAMBDA r : InRange(r.height))[i].hash,
                 height |-> SelectSeq(res.kept, LAMBDA r : InRange(r.height))[i].height]]

(***************************************************************************)
(* The index cache: several calls on one Blockchain object, over two       *)
(* index stores and two cache paths.                                       *)
(***************************************************************************)
\* small indexes: a main chain from height 0 with at most one side record
CacheScenarios ==
    {HashesOf(0, len, forks) :
        len \in 1..(MaxForkHeight + 1),
        forks \in {f \in ForkSets : Cardinality(f) <= 1}}

InitCache ==
    /\ \E H1 \in CacheScenarios, H2 \in CacheScenarios, template \in BOOLEAN :
         /\ db = [p \in {"idx1", "idx2"} |->
                    IF p = "idx1" THEN StoreOf(H1, <<>>) ELSE StoreOf(H2, <<>>)]
         /\ disk = DiskOf(H1 \cup H2, <<>>, template)
    /\ FreshObject
    /\ callsLeft = MaxCalls
    /\ ScanIdle
    /\ TxIdle
    /\ ScriptIdle
    /\ DecIdle
    /\ BlockIdle

NextCache ==
    \E index \in {"idx1", "idx2"}, cache \in {<<>>} \cup {<<c>> : c \in CachePaths} :
        GetOrderedBlocksCall(index, 0, <<>>, cache)

SpecCache == InitCache /\ [][NextCache]_vars

\* the cache file the last call named, read back
CacheRead == Unpickle(cacheFiles[lastCall.cache[1]][1])

\* C7 (as claimed): on a cache hit the store is not opened and the list
\* loaded is the height-sorted decoding of the store the call's own index
\* argument names; on a miss with a cache path that list is written.
C7_CacheMatchesCallIndex ==
    Called =>
        /\ res.hit => (~res.opened /\ res.loaded = SortedIndex)
        /\ res.wrote => CacheRead = SortedIndex

\* C7 (amended): on a cache hit the store is not opened and the list loaded
\* is the height-sorted decoding of the store named by the index argument of
\* the call that wrote the cache file; on a miss with a cache path the
\* height-sorted decoding of the call's own store is written.
C7_CacheMatchesWriter ==
    Called =>
        /\ res.hit => (/\ ~res.opened
                       /\ res.loaded = SortByHeight(db[cacheSrc[lastCall.cache[1]]]))
        /\ res.wrote => CacheRead = SortedIndex

\* a cache hit on a file that a call with another index argument wrote
C7_Witness ==
    /\ Called
    /\ res.hit
    /\ cacheSrc[lastCall.cache[1]] # lastCall.index
    /\ Len(res.loaded) > 1

(***************************************************************************)
(* blockchain.py: the .blk file scanner (get_files, get_blocks) and        *)
(* Blockchain.get_unordered_blocks.  Strings are tuples of character       *)
(* codes, file contents are tuples of bytes.                               *)
(***************************************************************************)
\* chunks a scanned file is built of
MaxChunks == 4
\* largest size a header chunk declares
MaxSize == 4
\* entries of a scanned directory
MaxFiles == 3

\* BITCOIN_CONSTANT = b'\xf9\xbe\xb4\xd9'
BITCOIN_CONSTANT == <<249, 190, 180, 217>>

\* struct.unpack("<I", b)[0] of four bytes.  Values of 2^30 and more are held
\* at 2^30 - 1: every file here is shorter, and the code only adds the value
\* to an offset and slices with it
UnpackLE32(b) == b[1] + 256 * b[2] + 65536 * b[3] + 16777216 * Min(b[4], 63)

\* struct.pack("<I", n): what bitcoind writes after the magic
PackLE32(n) ==
    <<n % 256, (n \div 256) % 256, (n \div 65536) % 256, (n \div 16777216) % 256>>

\* str.startswith and str.endswith
StartsWith(s, p) == Len(s) >= Len(p) /\ SubSeq(s, 1, Len(p)) = p
EndsWith(s, p) == Len(s) >= Len(p) /\ SubSeq(s, Len(s) - Len(p) + 1, Len(s)) = p

\* the filter of get_files: f.startswith("blk") and f.endswith(".dat")
IsBlkDat(f) == StartsWith(f, <<98, 108, 107>>) /\ EndsWith(f, <<46, 100, 97, 116>>)

\* os.path.join(path, x) of a directory and a relative name ("/" is 47)
PathJoin(p, x) == p \o <<47>> \o x

\* os.path.split(p)[1]: what follows the last "/"
BaseName(p) ==
    LET slashes == {i \in 1..Len(p) : p[i] = 47}
        last == IF slashes = {} THEN 0
                ELSE CHOOSE i \in slashes : \A j \in slashes : j <= i
    IN  SubSeq(p, last + 1, Len(p))

\* a < b of two Python strings: by the first differing character, a proper
\* prefix first
RECURSIVE StrLess(_, _)
StrLess(a, b) ==
    IF b = <<>> THEN FALSE
    ELSE IF a = <<>> THEN TRUE
    ELSE IF a[1] # b[1] THEN a[1] < b[1]
    ELSE StrLess(Tail(a), Tail(b))

\* sorted(files) of a list of strings
InsertStr(sorted, x) ==
    LET before == SelectSeq(sorted, LAMBDA y : ~StrLess(x, y))
        after == SelectSeq(sorted, LAMBDA y : StrLess(x, y))
    IN  before \o <<x>> \o after

RECURSIVE SortedStr(_)
SortedStr(s) ==
    IF s = <<>> THEN <<>>
    ELSE InsertStr(SortedStr(SubSeq(s, 1, Len(s) - 1)), s[Len(s)])

\* get_files without the final sorted(): the files in listing order
get_files_listing_order(p, d, listing) ==
    IF ~d THEN <<p>>
    ELSE LET kept == SelectSeq(listing, IsBlkDat)
         IN  [i \in 1..Len(kept) |-> PathJoin(p, kept[i])]

\* get_files(path): the path itself when it is no directory, else the
\* blk*.dat entries of the listing, joined to the path and sorted
get_files(p, d, listing) ==
    IF ~d THEN <<p>>
    ELSE LET kept == SelectSeq(listing, IsBlkDat)
         IN  SortedStr([i \in 1..Len(kept) |-> PathJoin(p, kept[i])])

\* for blk_file in get_files(self.path)
GetUnorderedBlocksStart ==
    /\ upc = "start"
    /\ files' = get_files(path, isdir, listdir)
    /\ upc' = "files"
    /\ UNCHANGED <<path, isdir, listdir, content, blk_file, offset, unordered, chainVars, txVars, scriptVars, decVars, blockVars>>

\* get_blocks(blk_file) up to the loop: mmap the file (ValueError on an
\* empty file), offset = 0
GetBlocksOpen ==
    /\ upc = "files"
    /\ files # <<>>
    /\ blk_file' = Head(files)
    /\ files' = Tail(files)
    /\ offset' = 0
    /\ upc' = IF Len(content[Head(files)]) = 0 THEN "raised" ELSE "scan"
    /\ UNCHANGED <<path, isdir, listdir, content, unordered, chainVars, txVars, scriptVars, decVars, blockVars>>

\* one turn of "while offset < (length - 4)": a magic frames a record, which
\* is yielded as a Block tagged with the base name of the file (struct.error
\* when fewer than four bytes follow the magic); any other byte is skipped
GetBlocksStep ==
    /\ upc = "scan"
    /\ offset < Len(content[blk_file]) - 4
    /\ IF PySlice(content[blk_file], offset, offset + 4) = BITCOIN_CONSTANT
       THEN IF Len(PySlice(content[blk_file], offset + 4, offset + 8)) # 4
            THEN /\ upc' = "raised"
                 /\ offset' = offset + 4
                 /\ unordered' = unordered
            ELSE \E size \in {UnpackLE32(PySlice(content[blk_file], offset + 4, offset + 8))} :
                 /\ upc' = upc
                 /\ offset' = offset + 8 + size
                 /\ unordered' = Append(unordered,
                        [raw |-> PySlice(content[blk_file], offset + 8, offset + 8 + size),
                         blk_file |-> BaseName(blk_file),
                         at |-> offset])
       ELSE /\ upc' = upc
            /\ offset' = offset + 1
            /\ unordered' = unordered
    /\ UNCHANGED <<path, isdir, listdir, content, files, blk_file, chainVars, txVars, scriptVars, decVars, blockVars>>

\* the loop of get_blocks ends: raw_data.close(), on to the next file
GetBlocksClose ==
    /\ upc = "scan"
    /\ offset >= Len(content[blk_file]) - 4
    /\ upc' = "files"
    /\ UNCHANGED <<path, isdir, listdir, content, files, blk_file, offset, unordered, chainVars, txVars, scriptVars, decVars, blockVars>>

\* the list of files is exhausted: get_unordered_blocks returns
GetUnorderedBlocksEnd ==
    /\ upc = "files"
    /\ files = <<>>
    /\ upc' = "done"
    /\ UNCHANGED <<path, isdir, listdir, content, files, blk_file, offset, unordered, chainVars, txVars, scriptVars, decVars, blockVars>>

NextScan ==
    \/ GetUnorderedBlocksStart
    \/ GetBlocksOpen
    \/ GetBlocksStep
    \/ GetBlocksClose
    \/ GetUnorderedBlocksEnd

\* no call of get_ordered_blocks is made
ChainIdle ==
    /\ db = <<>>
    /\ disk = <<>>
    /\ FreshObject
    /\ callsLeft = 0

\* a magic and a size field declaring S bytes
Hdr(S) == BITCOIN_CONSTANT \o PackLE32(S)

\* the pieces file contents are made of: single bytes, a bare magic, headers
Chunks == {<<0>>, <<1>>, <<170>>, BITCOIN_CONSTANT} \cup {Hdr(S) : S \in 0..MaxSize}

\* the concatenations of at most n chunks
RECURSIVE Concats(_)
Concats(n) ==
    IF n = 0 THEN {<<>>}
    ELSE LET shorter == Concats(n - 1)
         IN  shorter \cup {c \o ch : c \in shorter, ch \in Chunks}

\* "d/blk0.dat"
BlkPath == <<100, 47, 98, 108, 107, 48, 46, 100, 97, 116>>

\* a Blockchain whose path names one block file of any content
InitScan ==
    /\ path = BlkPath
    /\ isdir = FALSE
    /\ listdir = <<>>
    /\ \E c \in Concats(MaxChunks) : content = [p \in {BlkPath} |-> c]
    /\ files = <<>>
    /\ blk_file = <<>>
    /\ offset = 0
    /\ upc = "start"
    /\ unordered = <<>>
    /\ ChainIdle
    /\ TxIdle
    /\ ScriptIdle
    /\ DecIdle
    /\ BlockIdle

SpecScan == InitScan /\ [][NextScan]_vars

\* "blk0.dat", "blk1.dat", "blk10.dat", "blk2.dat", "rev0.dat"
DirNames ==
    {<<98, 108, 107, 48, 46, 100, 97, 116>>,
     <<98, 108, 107, 49, 46, 100, 97, 116>>,
     <<98, 108, 107, 49, 48, 46, 100, 97, 116>>,
     <<98, 108, 107, 50, 46, 100, 97, 116>>,
     <<114, 101, 118, 48, 46, 100, 97, 116>>}

\* a framed block of S bytes b
Frame(S, b) == Hdr(S) \o [i \in 1..S |-> b]

\* contents of the files of a directory: one block and padding, two blocks
\* and padding, a last block cut short, a magic cut short
DirContents ==
    {Frame(1, 170) \o <<0, 0, 0, 0>>,
     Frame(0, 0) \o Frame(2, 171) \o <<0, 0, 0, 0>>,
     Hdr(2) \o <<172>>,
     BITCOIN_CONSTANT \o <<0>>}

\* the listings of a directory: its entries in any order
Listings ==
    {s \in UNION {[1..n -> DirNames] : n \in 0..MaxFiles} :
        \A i \in 1..Len(s), j \in 1..Len(s) : i # j => s[i] # s[j]}

\* a Blockchain whose path names a directory "d"
InitUnordered ==
    /\ path = <<100>>
    /\ isdir = TRUE
    /\ \E l \in Listings :
         /\ listdir = l
         /\ content \in [{PathJoin(<<100>>, l[i]) : i \in 1..Len(l)} -> DirContents]
    /\ files = <<>>
    /\ blk_file = <<>>
    /\ offset = 0
    /\ upc = "start"
    /\ unordered = <<>>
    /\ ChainIdle
    /\ TxIdle
    /\ ScriptIdle
    /\ DecIdle
    /\ BlockIdle

SpecUnordered == InitUnordered /\ [][NextScan]_vars

(***************************************************************************)
(* Claims about the scanner.                                               *)
(***************************************************************************)
\* the full path of the file a yielded block is tagged with
PathOf(b) == IF isdir THEN PathJoin(path, b.blk_file) ELSE path

\* the size the header of a yielded block declares
Declared(b) == UnpackLE32(PySlice(content[PathOf(b)], b.at + 4, b.at + 8))

\* a complete frame header stands at the start of the contents c
StartsWithFrame(c) == Len(c) >= 8 /\ SubSeq(c, 1, 4) = BITCOIN_CONSTANT

\* C4: get_unordered_blocks yields the blocks of the blk*.dat files of the
\* directory in lexical order of file name, within a file in ascending
\* offset order, each tagged with the base name of its file; no blk*.dat
\* file is left unordered when the iteration ends.
C4_FileOrder ==
    /\ \A k \in 1..Len(unordered) :
         /\ IsBlkDat(unordered[k].blk_file)
         /\ unordered[k].blk_file \in Range(listdir)
         /\ PySlice(content[PathOf(unordered[k])], unordered[k].at, unordered[k].at + 4) = BITCOIN_CONSTANT
         /\ unordered[k].raw = PySlice(content[PathOf(unordered[k])], unordered[k].at + 8,
                                 unordered[k].at + 8 + Declared(unordered[k]))
    /\ \A i \in 1..Len(unordered), j \in 1..Len(unordered) :
         i < j => \/ StrLess(unordered[i].blk_file, unordered[j].blk_file)
                  \/ /\ unordered[i].blk_file = unordered[j].blk_file
                     /\ unordered[i].at < unordered[j].at
    /\ upc = "done" =>
         \A n \in Range(listdir) :
            (IsBlkDat(n) /\ StartsWithFrame(content[PathJoin(path, n)])) =>
                \E k \in 1..Len(unordered) : unordered[k].blk_file = n /\ unordered[k].at = 0

\* a directory listed unordered of order, with an entry that is no block file and
\* two block files, one of them with two blocks, scanned to the end
C4_Witness ==
    /\ upc = "done"
    /\ Len(listdir) = 3
    /\ StrLess(listdir[3], listdir[1])
    /\ \E n \in Range(listdir) : ~IsBlkDat(n)
    /\ \E i \in 1..Len(unordered), j \in 1..Len(unordered) :
         unordered[i].blk_file = unordered[j].blk_file /\ unordered[i].at < unordered[j].at
    /\ \E i \in 1..Len(unordered), j \in 1..Len(unordered) : unordered[i].blk_file # unordered[j].blk_file

\* C5: get_blocks frames the file: each yielded record starts at a magic and
\* is exactly the S bytes after the size field, its length the declared S
\* (the last record of the file included); records do not overlap; every
\* magic the scan has passed outside a record has been reported.
C5_Framing ==
    upc \in {"scan", "files", "done"} =>
        /\ \A k \in 1..Len(unordered) :
             /\ PySlice(content[PathOf(unordered[k])], unordered[k].at, unordered[k].at + 4) = BITCOIN_CONSTANT
             /\ Len(unordered[k].raw) = Declared(unordered[k])
             /\ unordered[k].raw = PySlice(content[PathOf(unordered[k])], unordered[k].at + 8,
                                     unordered[k].at + 8 + Declared(unordered[k]))
             /\ k > 1 => unordered[k].at >= unordered[k - 1].at + 8 + Declared(unordered[k - 1])
        /\ blk_file # <<>> =>
             \A p \in 0..(offset - 1) :
                (/\ p < Len(content[blk_file]) - 4
                 /\ PySlice(content[blk_file], p, p + 4) = BITCOIN_CONSTANT
                 /\ \A k \in 1..Len(unordered) :
                       ~(unordered[k].at < p /\ p < unordered[k].at + 8 + Declared(unordered[k])))
                => \E k \in 1..Len(unordered) : unordered[k].at = p

\* C6: the scanner never aborts: whatever the file holds, the scan raises
\* no error and ends at the end of the file.
C6_NeverAborts ==
    /\ upc # "raised"
    /\ upc = "done" => offset >= Len(content[blk_file]) - 4

(***************************************************************************)
(* utils.py, input.py, output.py, transaction.py: the transaction decoder. *)
(***************************************************************************)
\* inputs of a generated transaction
MaxIns == 2
\* outputs of a generated transaction
MaxOuts == 2
\* witness items of each input of a generated transaction
MaxItems == 2
\* length of the scripts and witness items of a generated transaction
MaxScriptLen == 1
\* bytes that follow a generated transaction in its buffer
MaxTrail == 2

\* data[a:]
PyFrom(s, a) == PySlice(s, a, Len(s))

\* struct.unpack of a little-endian unsigned integer of 2, 4 or 8 bytes.
\* Values of 2^30 and more are held at 2^30 - 1: every buffer here is shorter,
\* and the code only counts with the value, adds it to an offset and slices
UnpackLE(b) ==
    IF \E i \in 5..Len(b) : b[i] # 0 THEN 1073741823
    ELSE b[1] + 256 * b[2]
         + (IF Len(b) >= 4 THEN 65536 * b[3] + 16777216 * Min(b[4], 63) ELSE 0)

\* every prefix read as the two-byte format '<H'
CalcSizeShort(prefix) == 2

\* struct.calcsize of the format a compact-size prefix selects
CalcSize(prefix) == IF prefix = 253 THEN 2 ELSE IF prefix = 254 THEN 4 ELSE 8

\* varint(data): the decoded value and the bytes it takes; ValueError on
\* empty data, struct.error when the integer is cut short
varint(data) ==
    IF Len(data) <= 0 THEN [ok |-> FALSE, value |-> 0, size |-> 0]
    ELSE IF data[1] < 253 THEN [ok |-> TRUE, value |-> data[1], size |-> 1]
    ELSE IF Len(PySlice(data, 1, CalcSize(data[1]) + 1)) # CalcSize(data[1])
        THEN [ok |-> FALSE, value |-> 0, size |-> 0]
    ELSE [ok |-> TRUE,
          value |-> UnpackLE(PySlice(data, 1, CalcSize(data[1]) + 1)),
          size |-> CalcSize(data[1]) + 1]

\* a TxInput that could not be built
NoInput ==
    [ok |-> FALSE, script_length |-> 0, script_start |-> 0, size |-> 0,
     raw |-> <<>>, witnesses |-> <<>>]

\* TxInput(raw_bytes); size is _script_start + _script_length + 4
TxInput(raw_bytes) ==
    LET v == varint(PyFrom(raw_bytes, 36))
    IN  IF ~v.ok THEN NoInput
        ELSE [ok |-> TRUE,
              script_length |-> v.value,
              script_start |-> 36 + v.size,
              size |-> 36 + v.size + v.value + 4,
              raw |-> PySlice(raw_bytes, 0, 36 + v.size + v.value + 4),
              witnesses |-> <<>>]

\* a TxOutput that could not be built
NoOutput == [ok |-> FALSE, size |-> 0, script_raw |-> <<>>, value_raw |-> <<>>]

\* TxOutput(raw_bytes)
TxOutput(raw_bytes) ==
    LET v == varint(PyFrom(raw_bytes, 8))
    IN  IF ~v.ok THEN NoOutput
        ELSE [ok |-> TRUE,
              size |-> 8 + v.size + v.value,
              script_raw |-> PySlice(raw_bytes, 8 + v.size, 8 + v.size + v.value),
              value_raw |-> PySlice(raw_bytes, 0, 8)]

\* for _ in range(self.n_inputs): the inputs read from pos on
RECURSIVE ReadInputs(_, _, _, _)
ReadInputs(raw_data, pos, n, acc) ==
    IF n = 0 THEN [ok |-> TRUE, pos |-> pos, list |-> acc]
    ELSE LET i == TxInput(PyFrom(raw_data, pos))
         IN  IF ~i.ok THEN [ok |-> FALSE, pos |-> pos, list |-> acc]
             ELSE ReadInputs(raw_data, pos + i.size, n - 1, Append(acc, i))

\* for _ in range(self.n_outputs): the outputs read from pos on
RECURSIVE ReadOutputs(_, _, _, _)
ReadOutputs(raw_data, pos, n, acc) ==
    IF n = 0 THEN [ok |-> TRUE, pos |-> pos, list |-> acc]
    ELSE LET o == TxOutput(PyFrom(raw_data, pos))
         IN  IF ~o.ok THEN [ok |-> FALSE, pos |-> pos, list |-> acc]
             ELSE ReadOutputs(raw_data, pos + o.size, n - 1, Append(acc, o))

\* for _ in range(tx_witnesses_n): the witness items of one input
RECURSIVE ReadItems(_, _, _, _)
ReadItems(raw_data, pos, n, acc) ==
    IF n = 0 THEN [ok |-> TRUE, pos |-> pos, list |-> acc]
    ELSE LET v == varint(PyFrom(raw_data, pos))
         IN  IF ~v.ok THEN [ok |-> FALSE, pos |-> pos, list |-> acc]
             ELSE ReadItems(raw_data, pos + v.size + v.value, n - 1,
                      Append(acc, PySlice(raw_data, pos + v.size, pos + v.size + v.value)))

\* for _in in self.inputs: the witness items of the inputs from the k-th on
RECURSIVE ReadWitnesses(_, _, _, _)
ReadWitnesses(raw_data, pos, inputs, k) ==
    IF k > Len(inputs) THEN [ok |-> TRUE, pos |-> pos, list |-> inputs]
    ELSE LET v == varint(PyFrom(raw_data, pos))
             w == ReadItems(raw_data, pos + v.size, v.value, <<>>)
         IN  IF ~v.ok \/ ~w.ok THEN [ok |-> FALSE, pos |-> pos, list |-> inputs]
             ELSE ReadWitnesses(raw_data, w.pos,
                      [inputs EXCEPT ![k].witnesses = w.list], k + 1)

\* the final check of Transaction.__init__ lets nothing through
IncompleteIgnored(size, raw) == FALSE

\* if self.size != len(self.raw): raise ValueError('Incomplete transaction.')
Incomplete(size, raw) == size # Len(raw)

\* Transaction(raw_data)
Transaction(raw_data) ==
    LET is_segwit == PySlice(raw_data, 4, 6) = <<0, 1>>
        offset0 == IF is_segwit THEN 6 ELSE 4
        n_in == varint(PyFrom(raw_data, offset0))
        ins == ReadInputs(raw_data, offset0 + n_in.size, n_in.value, <<>>)
        n_out == varint(PyFrom(raw_data, ins.pos))
        outs == ReadOutputs(raw_data, ins.pos + n_out.size, n_out.value, <<>>)
        wit == IF is_segwit THEN ReadWitnesses(raw_data, outs.pos, ins.list, 1)
               ELSE [ok |-> TRUE, pos |-> outs.pos, list |-> ins.list]
    IN  IF ~n_in.ok THEN NoTransaction
        ELSE IF ~ins.ok THEN NoTransaction
        ELSE IF ~n_out.ok THEN NoTransaction
        ELSE IF ~outs.ok THEN NoTransaction
        ELSE IF ~wit.ok THEN NoTransaction
        ELSE IF Incomplete(wit.pos + 4, PySlice(raw_data, 0, wit.pos + 4)) THEN NoTransaction
        ELSE [ok |-> TRUE,
              is_segwit |-> is_segwit,
              n_inputs |-> n_in.value,
              inputs |-> wit.list,
              n_outputs |-> n_out.value,
              outputs |-> outs.list,
              offset_before_tx_witnesses |-> IF is_segwit THEN <<outs.pos>> ELSE <<>>,
              size |-> wit.pos + 4,
              raw |-> PySlice(raw_data, 0, wit.pos + 4)]

\* weight / 4 rounded down
QuarterFloor(weight) == weight \div 4

\* ceil(weight / 4)
QuarterCeil(weight) == (weight + 3) \div 4

\* the witness taken to run to the end of the transaction
WitSzWithLocktime(t) == t.size - t.offset_before_tx_witnesses[1]

\* wit_sz: int = self.size - self._offset_before_tx_witnesses - 4
WitSz(t) == t.size - t.offset_before_tx_witnesses[1] - 4

\* Transaction.vsize
Vsize(t) ==
    IF ~t.is_segwit THEN t.size
    ELSE LET wit_sz == WitSz(t)
             stripped_sz == t.size - (2 + wit_sz)
             weight == stripped_sz * 3 + t.size
         IN  QuarterCeil(weight)

\* Transaction.from_bytes(raw_data): the constructor, run to its end
TransactionFromBytes ==
    /\ tpc = "new"
    /\ \E t \in {Transaction(txBuffer)} :
         /\ tx' = t
         /\ tpc' = IF t.ok THEN "parsed" ELSE "raised"
    /\ UNCHANGED <<txBuffer, txShape, txVsize, chainVars, scanVars, scriptVars, decVars, blockVars>>

\* a read of the property Transaction.vsize
ReadVsize ==
    /\ tpc = "parsed"
    /\ txVsize' = <<Vsize(tx)>>
    /\ tpc' = "read"
    /\ UNCHANGED <<txBuffer, txShape, tx, chainVars, scanVars, scriptVars, decVars, blockVars>>

NextTx ==
    \/ TransactionFromBytes
    \/ ReadVsize

\* s repeated n times
RECURSIVE Repeat(_, _)
Repeat(s, n) == IF n = 0 THEN <<>> ELSE s \o Repeat(s, n - 1)

\* a compact size below 253, in one byte or in the three-byte form
CompactSize(n, wide) == IF wide THEN <<253, n, 0>> ELSE <<n>>

\* a serialized input: outpoint, script of L bytes, sequence number
SerInput(L, wide) ==
    Repeat(<<17>>, 32) \o <<0, 0, 0, 0>> \o CompactSize(L, wide)
        \o Repeat(<<81>>, L) \o <<255, 255, 255, 255>>

\* a serialized output: value, script of L bytes
SerOutput(L, wide) ==
    <<1, 0, 0, 0, 0, 0, 0, 0>> \o CompactSize(L, wide) \o Repeat(<<81>>, L)

\* the witness of one input: n items of L bytes
SerWitness(n, L, wide) ==
    CompactSize(n, wide) \o Repeat(CompactSize(L, wide) \o Repeat(<<48>>, L), n)

\* a serialized transaction, with the marker and the witnesses when segwit
Serialize(sh) ==
    <<1, 0, 0, 0>>
        \o (IF sh.segwit THEN <<0, 1>> ELSE <<>>)
        \o CompactSize(sh.n_in, sh.wide) \o Repeat(SerInput(sh.len, sh.wide), sh.n_in)
        \o CompactSize(sh.n_out, sh.wide) \o Repeat(SerOutput(sh.len, sh.wide), sh.n_out)
        \o (IF sh.segwit THEN Repeat(SerWitness(sh.items, sh.len, sh.wide), sh.n_in)
            ELSE <<>>)
        \o <<0, 0, 0, 0>>

\* the transactions buffers are made from
Shapes ==
    {sh \in [segwit : BOOLEAN, n_in : 0..MaxIns, n_out : 0..MaxOuts,
             items : 0..MaxItems, len : 0..MaxScriptLen, wide : BOOLEAN] :
        ~sh.segwit => sh.items = 0}

\* a buffer: a serialized transaction, cut short at any byte or followed by
\* other bytes, whole or with its first bytes missing
InitTx ==
    /\ \E sh \in Shapes, skew \in 0..1 :
         \E cut \in 0..(Len(Serialize(sh)) + MaxTrail) :
            /\ txBuffer = PySlice(Serialize(sh) \o Repeat(<<0>>, MaxTrail), skew, cut)
            /\ txShape = [segwit |-> sh.segwit, n_in |-> sh.n_in, n_out |-> sh.n_out,
                          items |-> sh.items, len |-> sh.len, wide |-> sh.wide,
                          full |-> Len(Serialize(sh)), skew |-> skew]
    /\ tx = NoTransaction
    /\ txVsize = <<>>
    /\ tpc = "new"
    /\ ChainIdle
    /\ ScanIdle
    /\ ScriptIdle
    /\ DecIdle
    /\ BlockIdle

SpecTx == InitTx /\ [][NextTx]_vars

(***************************************************************************)
(* Claims about the transaction decoder.                                   *)
(***************************************************************************)
\* the sum of the sizes of a list of inputs or outputs
RECURSIVE SumSizes(_)
SumSizes(list) == IF list = <<>> THEN 0 ELSE Head(list).size + SumSizes(Tail(list))

\* the bytes of a list of witness items, each behind a compact size
RECURSIVE ItemBytes(_)
ItemBytes(items) ==
    IF items = <<>> THEN 0 ELSE 1 + Len(Head(items)) + ItemBytes(Tail(items))

\* the fewest bytes that hold the witnesses of a list of inputs
RECURSIVE LeastWitness(_)
LeastWitness(inputs) ==
    IF inputs = <<>> THEN 0
    ELSE 1 + ItemBytes(Head(inputs).witnesses) + LeastWitness(Tail(inputs))

\* 2 when the 00 01 marker follows the version
MarkerBytes == IF PySlice(txBuffer, 4, 6) = <<0, 1>> THEN 2 ELSE 0

\* where the k-th input starts in the buffer
InputStart(k) ==
    4 + MarkerBytes + varint(PyFrom(txBuffer, 4 + MarkerBytes)).size
        + SumSizes(SubSeq(tx.inputs, 1, k - 1))

\* where the output count starts in the buffer
OutputCountStart == InputStart(Len(tx.inputs) + 1)

\* where the k-th output starts in the buffer
OutputStart(k) ==
    OutputCountStart + varint(PyFrom(txBuffer, OutputCountStart)).size
        + SumSizes(SubSeq(tx.outputs, 1, k - 1))

\* the bytes of the witness section
WitnessBytes ==
    IF MarkerBytes = 2 THEN tx.size - 4 - OutputStart(Len(tx.outputs) + 1) ELSE 0

\* C8: a transaction from_bytes returns has the size of the bytes the walk
\* consumed: version, marker if present, input count, inputs of
\* 36 + varint + L + 4 bytes each, output count, outputs of 8 + varint + L
\* bytes each, witness section, locktime; raw is buffer[0..size] and as long
\* as size; a buffer shorter than that is refused.
C8_SizeIsConsumed ==
    /\ tpc \in {"parsed", "read"} =>
         /\ tx.is_segwit = (MarkerBytes = 2)
         /\ tx.n_inputs = Len(tx.inputs) /\ tx.n_outputs = Len(tx.outputs)
         /\ \A k \in 1..Len(tx.inputs) :
              /\ tx.inputs[k].raw =
                   PySlice(txBuffer, InputStart(k), InputStart(k) + tx.inputs[k].size)
              /\ tx.inputs[k].size =
                   36 + varint(PyFrom(txBuffer, InputStart(k) + 36)).size
                      + tx.inputs[k].script_length + 4
              /\ Len(tx.inputs[k].raw) = tx.inputs[k].size
         /\ \A k \in 1..Len(tx.outputs) :
              /\ tx.outputs[k].size =
                   8 + varint(PyFrom(txBuffer, OutputStart(k) + 8)).size
                     + Len(tx.outputs[k].script_raw)
              /\ tx.outputs[k].value_raw = PySlice(txBuffer, OutputStart(k), OutputStart(k) + 8)
         /\ tx.size = OutputStart(Len(tx.outputs) + 1) + WitnessBytes + 4
         /\ WitnessBytes >= (IF tx.is_segwit THEN LeastWitness(tx.inputs) ELSE 0)
         /\ tx.raw = PySlice(txBuffer, 0, tx.size)
         /\ Len(tx.raw) = tx.size
         /\ tx.size <= Len(txBuffer)
    /\ (tpc # "new" /\ txShape.skew = 0 /\ Len(txBuffer) < txShape.full) => tpc = "raised"

\* a witness-serialized transaction of two inputs with witness items, decoded
\* from a buffer that holds more bytes than the transaction
C8_Witness ==
    /\ tpc = "parsed"
    /\ tx.is_segwit
    /\ Len(tx.inputs) = 2
    /\ Len(tx.outputs) >= 1
    /\ \A k \in 1..2 : Len(tx.inputs[k].witnesses) = 2 /\ tx.inputs[k].script_length = 1
    /\ Len(tx.inputs[1].witnesses[1]) = 1
    /\ tx.size < Len(txBuffer)

\* the weight of the decoded transaction: three times its stripped size plus
\* its size
Weight ==
    3 * (tx.size - 2 - (tx.size - tx.offset_before_tx_witnesses[1] - 4)) + tx.size

\* C9: for a decoded transaction ceil(size / 4) <= vsize <= size; vsize is
\* ceil((3 * stripped + size) / 4) and below size for a witness-serialized
\* transaction, and size for any other.
C9_VsizeBounds ==
    tpc = "read" =>
        /\ 4 * txVsize[1] >= tx.size
        /\ txVsize[1] <= tx.size
        /\ ~tx.is_segwit => txVsize[1] = tx.size
        /\ tx.is_segwit =>
             /\ txVsize[1] < tx.size
             /\ 4 * txVsize[1] >= Weight
             /\ 4 * (txVsize[1] - 1) < Weight

\* vsize read of a witness-serialized transaction with witness items whose
\* weight is no multiple of four
C9_Witness ==
    /\ tpc = "read"
    /\ tx.is_segwit
    /\ Len(tx.inputs) >= 1
    /\ Len(tx.inputs[1].witnesses) >= 1
    /\ Weight % 4 # 0

(***************************************************************************)
(* script.py and output.py: the script classifier.  An operation of a      *)
(* script is an integer (an opcode or a small number) or a byte string.    *)
(***************************************************************************)
\* chunks a generated script is built of
MaxOps == 2
\* keys and key counts of a generated multisig script
MaxKeys == 2

OP_DUP == 118
OP_HASH160 == 169
OP_EQUALVERIFY == 136
OP_CHECKSIG == 172
OP_CHECKMULTISIG == 174

\* an operation that is an int, and one that is bytes
IntOp(n) == [int |-> TRUE, n |-> n, data |-> <<>>]
BytesOp(d) == [int |-> FALSE, n |-> 0, data |-> d]

\* is_public_key(data)
is_public_key(op) ==
    /\ ~op.int
    /\ \/ Len(op.data) = 65 /\ op.data[1] = 4
       \/ Len(op.data) = 33 /\ op.data[1] \in {2, 3}

\* the bytes that hold the length of a push: none for a direct push, 1, 2 or
\* 4 for OP_PUSHDATA1, 2, 4
LengthBytes(opcode) ==
    IF opcode < 76 THEN 0 ELSE IF opcode = 76 THEN 1 ELSE IF opcode = 77 THEN 2 ELSE 4

\* the length of the push at byte i (0-based) of raw
PushSize(raw, i) ==
    IF raw[i + 1] < 76 THEN raw[i + 1]
    ELSE IF raw[i + 1] = 76 THEN raw[i + 2]
    ELSE UnpackLE(PySlice(raw, i + 1, i + 1 + LengthBytes(raw[i + 1])))

\* list(CScript(raw)): the walk of the script from byte i (0-based) on.  A
\* push yields its bytes (OP_0 yields 0), OP_1..OP_16 yield 1..16, any other
\* opcode yields itself; a push cut short is a CScriptInvalidError
RECURSIVE Walk(_, _, _)
Walk(raw, i, acc) ==
    IF i >= Len(raw) THEN [ok |-> TRUE, list |-> acc]
    ELSE IF raw[i + 1] > 78
        THEN Walk(raw, i + 1,
                  Append(acc, IF raw[i + 1] \in 81..96 THEN IntOp(raw[i + 1] - 80)
                              ELSE IntOp(raw[i + 1])))
    ELSE IF i + 1 + LengthBytes(raw[i + 1]) > Len(raw)
        THEN [ok |-> FALSE, list |-> <<>>]
    ELSE IF i + 1 + LengthBytes(raw[i + 1]) + PushSize(raw, i) > Len(raw)
        THEN [ok |-> FALSE, list |-> <<>>]
    ELSE Walk(raw, i + 1 + LengthBytes(raw[i + 1]) + PushSize(raw, i),
              Append(acc, IF raw[i + 1] = 0 THEN IntOp(0)
                          ELSE BytesOp(PySlice(raw, i + 1 + LengthBytes(raw[i + 1]),
                                   i + 1 + LengthBytes(raw[i + 1]) + PushSize(raw, i)))))

\* mutant: every script counts as valid
is_valid_unchecked(raw) == TRUE

\* CScript.is_valid()
is_valid(raw) == Walk(raw, 0, <<>>).ok

\* Script.operations: the empty list for an invalid script
operations(raw) == Walk(raw, 0, <<>>).list

\* a Python bool
Bool(b) == IF b THEN "True" ELSE "False"

\* Script.is_return: CScript.is_unspendable(), the script starts with OP_RETURN
is_return(raw) == Bool(Len(raw) > 0 /\ raw[1] = 106)

\* Script.is_p2sh: CScript.is_p2sh(), OP_HASH160 <20 bytes> OP_EQUAL
is_p2sh(raw) == Bool(Len(raw) = 23 /\ raw[1] = 169 /\ raw[2] = 20 /\ raw[23] = 135)

\* Script.is_p2wsh: CScript.is_witness_v0_scripthash()
is_p2wsh(raw) == Bool(Len(raw) = 34 /\ raw[1] = 0 /\ raw[2] = 32)

\* Script.is_p2wpkh: CScript.is_witness_v0_keyhash()
is_p2wpkh(raw) == Bool(Len(raw) = 22 /\ raw[1] = 0 /\ raw[2] = 20)

\* Script.is_pubkey: operations[-1] and operations[0] are read before the
\* length is looked at
is_pubkey(ops) ==
    IF Len(ops) = 0 THEN "IndexError"
    ELSE Bool(/\ Len(ops) = 2
              /\ ops[Len(ops)] = IntOp(OP_CHECKSIG)
              /\ is_public_key(ops[1]))

\* Script.is_pubkeyhash: operations[0], [1], [-2] and [-1] are read before
\* the results are combined
is_pubkeyhash(raw, ops) ==
    IF Len(ops) < 2 THEN "IndexError"
    ELSE Bool(/\ Len(raw) = 25
              /\ ops[1] = IntOp(OP_DUP)
              /\ ops[2] = IntOp(OP_HASH160)
              /\ ops[Len(ops) - 1] = IntOp(OP_EQUALVERIFY)
              /\ ops[Len(ops)] = IntOp(OP_CHECKSIG))

\* for i in range(_m): the operations from slot 1 + i on are public keys
RECURSIVE KeysFrom(_, _, _)
KeysFrom(ops, i, m) ==
    IF i >= m THEN "True"
    ELSE IF 1 + i >= Len(ops) THEN "IndexError"
    ELSE IF ~is_public_key(ops[1 + i + 1]) THEN "False"
    ELSE KeysFrom(ops, i + 1, m)

\* Script.is_multisig; _n < _m is a TypeError when _n is bytes
is_multisig(ops) ==
    IF Len(ops) < 4 THEN "False"
    ELSE IF ~ops[1].int THEN "False"
    ELSE IF KeysFrom(ops, 0, ops[1].n) # "True" THEN KeysFrom(ops, 0, ops[1].n)
    ELSE IF ~ops[Len(ops) - 1].int THEN "TypeError"
    ELSE Bool(/\ ~(ops[Len(ops) - 1].n < ops[1].n)
              /\ ~(ops[Len(ops)] # IntOp(OP_CHECKMULTISIG)))

\* the elif chain of TxOutput.script_type from is_pubkey on
TypeAfterPubkeyhash(raw, ops) ==
    IF is_pubkey(ops) # "False"
        THEN (IF is_pubkey(ops) = "True" THEN "pubkey" ELSE is_pubkey(ops))
    ELSE IF is_p2sh(raw) = "True" THEN "p2sh"
    ELSE IF is_multisig(ops) # "False"
        THEN (IF is_multisig(ops) = "True" THEN "multisig" ELSE is_multisig(ops))
    ELSE IF is_return(raw) = "True" THEN "OP_RETURN"
    ELSE IF is_p2wpkh(raw) = "True" THEN "p2wpkh"
    ELSE IF is_p2wsh(raw) = "True" THEN "p2wsh"
    ELSE "unknown"

\* TxOutput.script_type: the label, or the error a recognizer raises
script_type(raw) ==
    IF ~is_valid(raw) THEN "invalid"
    ELSE IF is_pubkeyhash(raw, operations(raw)) = "True" THEN "pubkeyhash"
    ELSE IF is_pubkeyhash(raw, operations(raw)) # "False"
        THEN is_pubkeyhash(raw, operations(raw))
    ELSE TypeAfterPubkeyhash(raw, operations(raw))

\* a read of the property TxOutput.script_type
ReadScriptType ==
    /\ spc = "new"
    /\ outType' = script_type(outScript)
    /\ spc' = "read"
    /\ UNCHANGED <<outScript, outAddresses, outMultisig, outValue, chainVars, scanVars, txVars,
                   decVars, blockVars>>

\* Address(_hash, public_key, None, _type, segwit_version); <<>> is None
Address(hash, public_key, type, segwit_version) ==
    [hash |-> hash, public_key |-> public_key, type |-> type,
     segwit_version |-> segwit_version]

\* Address.from_public_key, Address.from_hash160, Address.from_bech32
from_public_key(op) == Address(<<>>, <<op>>, "normal", <<>>)
from_hash160(op, type) == Address(<<op>>, <<>>, type, <<>>)
from_bech32(op, version) == Address(<<op>>, <<>>, "bech32", <<version>>)

\* TxOutput.addresses for a script of type t: one address from the operation
\* in slot i (0-based), IndexError when the slot is empty
AddressFromSlot(t, ops, i) ==
    IF i >= Len(ops) THEN [error |-> "IndexError", list |-> <<>>]
    ELSE [error |-> "",
          list |-> << CASE t = "pubkey" -> from_public_key(ops[i + 1])
                        [] t = "pubkeyhash" -> from_hash160(ops[i + 1], "normal")
                        [] t = "p2sh" -> from_hash160(ops[i + 1], "p2sh")
                        [] OTHER -> from_bech32(ops[i + 1], 0) >>]

\* TxOutput.addresses; the multisig branch takes n = operations[-2] and one
\* address for each of operations[1:1+n]
addresses(raw) ==
    LET t == script_type(raw)
        ops == operations(raw)
    IN  IF t \in {"IndexError", "TypeError"} THEN [error |-> t, list |-> <<>>]
        ELSE IF t = "pubkey" THEN AddressFromSlot(t, ops, 0)
        ELSE IF t = "pubkeyhash" THEN AddressFromSlot(t, ops, 2)
        ELSE IF t = "p2sh" THEN AddressFromSlot(t, ops, 1)
        ELSE IF t = "multisig"
            THEN [error |-> "",
                  list |-> [i \in 1..Len(PySlice(ops, 1, 1 + ops[Len(ops) - 1].n)) |->
                              from_public_key(PySlice(ops, 1, 1 + ops[Len(ops) - 1].n)[i])]]
        ELSE IF t \in {"p2wpkh", "p2wsh"} THEN AddressFromSlot(t, ops, 1)
        ELSE [error |-> "", list |-> <<>>]

\* a read of the property TxOutput.addresses
ReadAddresses ==
    /\ spc = "read"
    /\ outAddresses' = addresses(outScript)
    /\ spc' = "addressed"
    /\ UNCHANGED <<outScript, outType, outMultisig, outValue, chainVars, scanVars, txVars,
                   decVars, blockVars>>

\* a call of Script.is_multisig on the output's script
ReadIsMultisig ==
    /\ spc = "new"
    /\ outMultisig' = is_multisig(operations(outScript))
    /\ spc' = "multisig_read"
    /\ UNCHANGED <<outScript, outType, outAddresses, outValue, chainVars, scanVars, txVars,
                   decVars, blockVars>>

\* b2a_hex(operation): two hexadecimal digits for each byte
b2a_hex(data) ==
    [i \in 1..(2 * Len(data)) |->
        IF i % 2 = 1 THEN data[(i + 1) \div 2] \div 16 ELSE data[i \div 2] % 16]

\* Script.value: the parts that are joined by " ", the hexadecimal digits of
\* a push and the operation itself otherwise; 'INVALID_SCRIPT' when the walk
\* of the script fails
value(raw) ==
    IF ~Walk(raw, 0, <<>>).ok THEN <<"INVALID_SCRIPT">>
    ELSE <<[i \in 1..Len(Walk(raw, 0, <<>>).list) |->
              IF Walk(raw, 0, <<>>).list[i].int
                  THEN <<Walk(raw, 0, <<>>).list[i].n>>
                  ELSE b2a_hex(Walk(raw, 0, <<>>).list[i].data)]>>

\* a read of the property Script.value
ReadValue ==
    /\ spc = "new"
    /\ outValue' = value(outScript)
    /\ spc' = "value_read"
    /\ UNCHANGED <<outScript, outType, outAddresses, outMultisig, chainVars, scanVars, txVars,
                   decVars, blockVars>>

NextScript ==
    \/ ReadScriptType
    \/ ReadAddresses
    \/ ReadIsMultisig
    \/ ReadValue

\* a push of n bytes b of which the first is first
Push(n, first, b) == <<n, first>> \o Repeat(<<b>>, n - 1)

\* compressed and uncompressed public keys, as pushes
KeyPush(k) == IF k % 2 = 1 THEN Push(33, 2, 7) ELSE Push(65, 4, 7)

\* the keys 1..n, pushed one after the other
RECURSIVE KeyPushes(_)
KeyPushes(n) == IF n = 0 THEN <<>> ELSE KeyPushes(n - 1) \o KeyPush(n)

\* the standard output scripts
P2PKH == <<OP_DUP, OP_HASH160>> \o Push(20, 9, 9) \o <<OP_EQUALVERIFY, OP_CHECKSIG>>
P2SH == <<OP_HASH160>> \o Push(20, 9, 9) \o <<135>>
P2WPKH == <<0>> \o Push(20, 9, 9)
P2WSH == <<0>> \o Push(32, 9, 9)
P2PK == KeyPush(1) \o <<OP_CHECKSIG>>

\* the opcode that pushes the number m: OP_0, OP_1 .. OP_16
CountOp(m) == IF m = 0 THEN <<0>> ELSE <<80 + m>>

\* scripts of the multisig form: a count, keys, then a count, a push or
\* nothing, then an opcode or nothing
MultisigLike ==
    {CountOp(m) \o KeyPushes(k) \o n \o last :
        m \in 0..(MaxKeys + 2), k \in 0..(MaxKeys + 1),
        n \in {<<>>} \cup {CountOp(j) : j \in 0..MaxKeys} \cup {KeyPush(1)},
        last \in {<<>>, <<OP_CHECKMULTISIG>>, <<OP_CHECKSIG>>}}

\* the prefixes of a script
Prefixes(s) == {SubSeq(s, 1, n) : n \in 0..Len(s)}

\* the pieces free-form scripts are made of: opcodes, pushes, pushes cut short
ScriptChunks ==
    {<<0>>, <<81>>, <<82>>, <<106>>, <<OP_DUP>>, <<OP_HASH160>>, <<OP_EQUALVERIFY>>,
     <<OP_CHECKSIG>>, <<OP_CHECKMULTISIG>>, <<135>>, Push(20, 9, 9), KeyPush(1),
     KeyPush(2), <<76, 1, 7>>, <<77, 1, 0, 7>>, <<5, 1>>, <<76>>}

\* the concatenations of at most n script chunks
RECURSIVE ScriptConcats(_)
ScriptConcats(n) ==
    IF n = 0 THEN {<<>>}
    ELSE LET shorter == ScriptConcats(n - 1)
         IN  shorter \cup {c \o ch : c \in shorter, ch \in ScriptChunks}

\* the output scripts classified
Scripts ==
    ScriptConcats(MaxOps) \cup MultisigLike
        \cup Prefixes(P2PKH) \cup Prefixes(P2SH) \cup Prefixes(P2WPKH)
        \cup Prefixes(P2WSH) \cup Prefixes(P2PK)

InitScript ==
    /\ outScript \in Scripts
    /\ outType = ""
    /\ outAddresses = [error |-> "", list |-> <<>>]
    /\ outMultisig = ""
    /\ outValue = <<>>
    /\ spc = "new"
    /\ ChainIdle
    /\ ScanIdle
    /\ TxIdle
    /\ DecIdle
    /\ BlockIdle

SpecScript == InitScript /\ [][NextScript]_vars

\* the lengths of the witness items of a list of inputs, summed
RECURSIVE SumItemLengths(_)
SumItemLengths(inputs) ==
    IF inputs = <<>> THEN 0
    ELSE (IF Head(inputs).witnesses = <<>> THEN 0
          ELSE Len(Head(inputs).witnesses[1])
               + SumItemLengths(<<[Head(inputs) EXCEPT !.witnesses = Tail(@)]>>))
         + SumItemLengths(Tail(inputs))

\* the bytes of the compact sizes in a witness section that starts at pos and
\* holds one item for each of n inputs: an item count and an item length each
RECURSIVE PrefixBytes(_, _)
PrefixBytes(pos, n) ==
    IF n = 0 THEN 0
    ELSE LET count == varint(PyFrom(txBuffer, pos))
             length == varint(PyFrom(txBuffer, pos + count.size))
         IN  count.size + length.size
             + PrefixBytes(pos + count.size + length.size + length.value, n - 1)

\* a decoded witness-serialized transaction with one witness item per input
OneItemPerInput ==
    /\ tpc \in {"parsed", "read"}
    /\ tx.is_segwit
    /\ \A k \in 1..Len(tx.inputs) : Len(tx.inputs[k].witnesses) = 1

\* C24 as stated: for a witness-serialized transaction with one witness item
\* per input, the lengths of the witness items sum to
\* size - offset_before_witnesses - 4.
C24_SumOfLengths ==
    OneItemPerInput => SumItemLengths(tx.inputs) = WitSz(tx)

\* C24: for a witness-serialized transaction with one witness item per input,
\* size - offset_before_witnesses - 4 is the sum of the lengths of the witness
\* items plus the bytes of the compact sizes in front of them, an item count
\* and an item length for each input: at least two bytes an input more than
\* the sum of the lengths.
C24_WitnessSection ==
    OneItemPerInput =>
        /\ WitSz(tx) = SumItemLengths(tx.inputs)
                          + PrefixBytes(tx.offset_before_tx_witnesses[1], Len(tx.inputs))
        /\ WitSz(tx) >= SumItemLengths(tx.inputs) + 2 * Len(tx.inputs)
        /\ WitSz(tx) = WitnessBytes

\* a witness-serialized transaction of two inputs, each with one witness item
\* of one byte behind one-byte compact sizes
C24_Witness ==
    /\ OneItemPerInput
    /\ Len(tx.inputs) = 2
    /\ SumItemLengths(tx.inputs) = 2
    /\ WitSz(tx) = 6

(***************************************************************************)
(* Claims about the script classifier.                                     *)
(***************************************************************************)
\* the operations of the output script
Ops == operations(outScript)

\* the operation in slot i, counted from the end when i is negative; no
\* operation when the slot does not exist
OpAt(i) ==
    IF i >= 0 /\ i < Len(Ops) THEN <<Ops[i + 1]>>
    ELSE IF i < 0 /\ -i <= Len(Ops) THEN <<Ops[Len(Ops) + i + 1]>>
    ELSE <<>>

\* the recognition rules, in classification order, each with its label
Recognized ==
    <<[label |-> "pubkeyhash",
       match |-> /\ Len(outScript) = 25
                 /\ OpAt(0) = <<IntOp(OP_DUP)>> /\ OpAt(1) = <<IntOp(OP_HASH160)>>
                 /\ OpAt(-2) = <<IntOp(OP_EQUALVERIFY)>> /\ OpAt(-1) = <<IntOp(OP_CHECKSIG)>>],
      [label |-> "pubkey",
       match |-> /\ Len(Ops) = 2
                 /\ OpAt(-1) = <<IntOp(OP_CHECKSIG)>>
                 /\ is_public_key(Ops[1])],
      [label |-> "p2sh", match |-> is_p2sh(outScript) = "True"],
      [label |-> "multisig",
       match |-> /\ Len(Ops) >= 4
                 /\ Ops[1].int
                 /\ \A i \in 1..Ops[1].n : OpAt(i) # <<>> /\ is_public_key(OpAt(i)[1])
                 /\ Ops[Len(Ops) - 1].int /\ Ops[Len(Ops) - 1].n >= Ops[1].n
                 /\ OpAt(-1) = <<IntOp(OP_CHECKMULTISIG)>>],
      [label |-> "OP_RETURN", match |-> is_return(outScript) = "True"],
      [label |-> "p2wpkh", match |-> is_p2wpkh(outScript) = "True"],
      [label |-> "p2wsh", match |-> is_p2wsh(outScript) = "True"]>>

\* the label of the first rule that matches, "unknown" when none does
FirstMatch ==
    IF \E k \in 1..Len(Recognized) : Recognized[k].match
    THEN Recognized[CHOOSE k \in 1..Len(Recognized) :
            /\ Recognized[k].match
            /\ \A j \in 1..(k - 1) : ~Recognized[j].match].label
    ELSE "unknown"

MaxVarintTail == 9
\* bytes of a buffer given to _leveldb_varint
MaxLeveldbLen == 3

\* varint(data), called on its own
VarintCall ==
    /\ dpc = "varint"
    /\ decResult' = varint(decData)
    /\ dpc' = "varint_done"
    /\ UNCHANGED <<decData, chainVars, scanVars, txVars, scriptVars, blockVars>>

NextVarint == VarintCall

\* the byte strings of at most n bytes over a set of bytes
RECURSIVE BytesUpTo(_, _)
BytesUpTo(alphabet, n) ==
    IF n = 0 THEN {<<>>}
    ELSE LET shorter == BytesUpTo(alphabet, n - 1)
         IN  shorter \cup {Append(b, x) : b \in shorter, x \in alphabet}

\* buffers given to varint: nothing, or a first byte on either side of each
\* prefix and a tail
VarintBuffers ==
    {<<>>, <<253, 253, 0>>}
        \cup {<<first>> \o tail :
                first \in {0, 252, 253, 254, 255},
                tail \in BytesUpTo({0, 1}, MaxVarintTail)}

InitVarint ==
    /\ decData \in VarintBuffers
    /\ decResult = NoResult
    /\ dpc = "varint"
    /\ ChainIdle
    /\ ScanIdle
    /\ TxIdle
    /\ ScriptIdle
    /\ BlockIdle

SpecVarint == InitVarint /\ [][NextVarint]_vars

\* the loop of _leveldb_varint without idx += 1
CarryNothing(idx) == idx

\* idx += 1, after a byte whose high bit is set
Carry(idx) == idx + 1

\* (idx << 7) | (data & 0x7f): the low seven bits of idx << 7 are clear, so
\* the or adds the low seven bits of data
ShiftIn(idx, data) == idx * 128 + (data % 128)

\* the loop of _leveldb_varint from byte pos on; raw_data[pos] is an
\* IndexError past the end
RECURSIVE LeveldbFrom(_, _, _)
LeveldbFrom(raw_data, pos, idx) ==
    IF pos >= Len(raw_data) THEN NoResult
    ELSE IF raw_data[pos + 1] < 128
        THEN [ok |-> TRUE, value |-> ShiftIn(idx, raw_data[pos + 1]), size |-> pos + 1]
    ELSE LeveldbFrom(raw_data, pos + 1, Carry(ShiftIn(idx, raw_data[pos + 1])))

\* _leveldb_varint(raw_data)
leveldb_varint(raw_data) == LeveldbFrom(raw_data, 0, 0)

\* _leveldb_varint(raw_data), called on its own
LeveldbVarintCall ==
    /\ dpc = "leveldb"
    /\ decResult' = leveldb_varint(decData)
    /\ dpc' = "leveldb_done"
    /\ UNCHANGED <<decData, chainVars, scanVars, txVars, scriptVars, blockVars>>

NextLeveldb == LeveldbVarintCall

InitLeveldb ==
    /\ decData \in BytesUpTo({0, 1, 64, 127, 128, 185, 255}, MaxLeveldbLen)
    /\ decResult = NoResult
    /\ dpc = "leveldb"
    /\ ChainIdle
    /\ ScanIdle
    /\ TxIdle
    /\ ScriptIdle
    /\ BlockIdle

SpecLeveldb == InitLeveldb /\ [][NextLeveldb]_vars

(***************************************************************************)
(* Claims about the varint decoders.                                       *)
(***************************************************************************)
\* the bytes first..last of decData read as a little-endian number
RECURSIVE LittleEndian(_, _)
LittleEndian(first, last) ==
    IF first > last THEN 0 ELSE decData[first] + 256 * LittleEndian(first + 1, last)

\* the bytes a compact size with the given first byte takes after it
Following(first) ==
    IF first < 253 THEN 0 ELSE IF first = 253 THEN 2 ELSE IF first = 254 THEN 4 ELSE 8

\* the number after the first byte is below 2^30
Small ==
    /\ \A i \in 6..Len(decData) : i <= 9 => decData[i] = 0
    /\ Len(decData) >= 5 => decData[5] < 64

\* C12: varint returns (b, 1) for a first byte b < 0xfd and the next 2, 4 or
\* 8 bytes read little-endian, with 3, 5 or 9 bytes consumed, for 0xfd, 0xfe,
\* 0xff; it fails on an empty buffer and on one shorter than the bytes it
\* needs.  (Numbers are compared where they are below 2^30.)
C12_CompactSize ==
    dpc = "varint_done" =>
        /\ Len(decData) = 0 => ~decResult.ok
        /\ Len(decData) > 0 =>
             /\ decResult.ok = (Len(decData) >= 1 + Following(decData[1]))
             /\ decResult.ok => decResult.size = 1 + Following(decData[1])
             /\ (decResult.ok /\ decData[1] < 253) => decResult.value = decData[1]
             /\ (decResult.ok /\ decData[1] >= 253 /\ Small) =>
                   decResult.value = LittleEndian(2, 1 + Following(decData[1]))
        /\ decData = <<252>> => decResult = [ok |-> TRUE, value |-> 252, size |-> 1]
        /\ decData = <<253, 253, 0>> => decResult = [ok |-> TRUE, value |-> 253, size |-> 3]
        /\ decData = <<254, 0, 0, 1, 0>> =>
             decResult = [ok |-> TRUE, value |-> 65536, size |-> 5]

\* the five-byte form decoded
C12_Witness ==
    /\ dpc = "varint_done"
    /\ decData = <<254, 0, 0, 1, 0>>
    /\ decResult.ok

\* 128 to the power n
RECURSIVE Pow128(_)
Pow128(n) == IF n = 0 THEN 1 ELSE 128 * Pow128(n - 1)

\* the positions of the bytes of decData whose high bit is clear
Stops == {i \in 1..Len(decData) : decData[i] < 128}

\* the first of them
FirstStop == CHOOSE k \in Stops : \A j \in Stops : k <= j

\* the low seven bits of bytes i..k, each shifted by seven bits per byte
\* after it, with the 1 added after every byte but the last shifted alike
RECURSIVE Accumulated(_, _)
Accumulated(i, k) ==
    IF i > k THEN 0
    ELSE ((decData[i] % 128) + (IF i < k THEN 1 ELSE 0)) * Pow128(k - i)
         + Accumulated(i + 1, k)

\* C13: _leveldb_varint returns the number built by n := (n << 7) | (d & 0x7f)
\* per byte, with n := n + 1 after every byte whose high bit is set, up to the
\* first byte whose high bit is clear, and the count of the bytes read; the
\* bytes after that one change nothing; [0xb9 0x40] gives (7488, 2).
C13_LeveldbVarint ==
    dpc = "leveldb_done" =>
        /\ Stops # {} =>
             /\ decResult.ok
             /\ decResult.size = FirstStop
             /\ decResult.value = Accumulated(1, FirstStop)
             /\ decResult = leveldb_varint(SubSeq(decData, 1, FirstStop))
        /\ decData = <<185, 64>> => decResult = [ok |-> TRUE, value |-> 7488, size |-> 2]

\* two bytes with the high bit set, then a stopping byte
C13_Witness ==
    /\ dpc = "leveldb_done"
    /\ Len(decData) = 3
    /\ decData[1] >= 128 /\ decData[2] >= 128
    /\ decResult.ok /\ decResult.size = 3
(***************************************************************************)
(* input.py, output.py: TxInput.from_bytes and TxOutput.from_bytes called  *)
(* on a buffer that may end early.                                         *)
(***************************************************************************)

\* longest script of the inputs and outputs decoded on their own
MaxIoScript == 3

\* TxInput.from_bytes(raw_data)
InputFromBytes ==
    /\ dpc = "input"
    /\ decResult' = TxInput(decData)
    /\ dpc' = "input_done"
    /\ UNCHANGED <<decData, chainVars, scanVars, txVars, scriptVars, blockVars>>

\* TxOutput.from_bytes(raw_data)
OutputFromBytes ==
    /\ dpc = "output"
    /\ decResult' = TxOutput(decData)
    /\ dpc' = "output_done"
    /\ UNCHANGED <<decData, chainVars, scanVars, txVars, scriptVars, blockVars>>

NextIo ==
    \/ InputFromBytes
    \/ OutputFromBytes

\* every buffer that starts as s does and is cut at any place, or goes on
\* with up to MaxTrail bytes of what follows
Cuts(s) ==
    {PySlice(s \o Repeat(<<2>>, MaxTrail), 0, cut) : cut \in 0..(Len(s) + MaxTrail)}

\* a serialized input or output, whole, cut short or followed by more
InitIo ==
    /\ \E L \in 0..MaxIoScript, wide \in BOOLEAN :
          \/ decData \in Cuts(SerInput(L, wide)) /\ dpc = "input"
          \/ decData \in Cuts(SerOutput(L, wide)) /\ dpc = "output"
    /\ decResult = NoResult
    /\ ChainIdle
    /\ ScanIdle
    /\ TxIdle
    /\ ScriptIdle
    /\ BlockIdle

SpecIo == InitIo /\ [][NextIo]_vars

\* C14: TxInput.from_bytes and TxOutput.from_bytes fail whenever the buffer
\* holds fewer bytes than the object's size (36 + varint + L + 4 for an
\* input, 8 + varint + L for an output): no object is returned from a buffer
\* that ends inside the script or before the sequence number.
C14_ShortBufferFails ==
    (dpc \in {"input_done", "output_done"} /\ decResult.ok)
        => Len(decData) >= decResult.size

\* C14: an input is returned from a buffer that ends inside its script
C14_InputInsideScript ==
    ~(/\ dpc = "input_done"
      /\ decResult.ok
      /\ decResult.script_length >= 2
      /\ Len(decData) > decResult.script_start
      /\ Len(decData) < decResult.script_start + decResult.script_length)

\* C14: an output is returned from a buffer that ends inside its script
C14_OutputInsideScript ==
    ~(/\ dpc = "output_done"
      /\ decResult.ok
      /\ Len(decResult.script_raw) >= 1
      /\ Len(decData) < decResult.size)
(***************************************************************************)
(* block.py: get_block_transactions; blockchain.py: get_transaction.       *)
(***************************************************************************)

\* transactions in a block
MaxBlockTxs == 2

\* mutant: every attempt takes the first width
RetryWidthFixed(j) == 1024

\* 1024 * 2 ** j: the width of the j-th slice tried
RetryWidth(j) == 1024 * (2 ^ j)

\* the ladder `for j in range(0, 20)` from the j-th slice on: the transaction
\* parsed from the first slice transaction_data[offset:offset_e] that parses,
\* NoTransaction when none does
RECURSIVE Ladder(_, _, _)

\* the end of one attempt: the transaction is yielded (returned), or the
\* exception is swallowed and the next width tried
RECURSIVE LadderNext(_, _, _, _)
LadderNext(transaction, transaction_data, tx_offset, j) ==
    IF transaction.ok THEN transaction
    ELSE Ladder(transaction_data, tx_offset, j + 1)

Ladder(transaction_data, tx_offset, j) ==
    IF j >= 20 THEN NoTransaction
    ELSE LadderNext(Transaction(PySlice(transaction_data, tx_offset,
                                        tx_offset + RetryWidth(j))),
                    transaction_data, tx_offset, j)

\* mutant: the offset stays where it is
AdvanceNot(tx_offset, size) == tx_offset

\* offset += transaction.size
Advance(tx_offset, size) == tx_offset + size

\* get_block_transactions up to the loop: the header is skipped and the
\* number of transactions decoded; varint raises on a block that ends with
\* its header or inside the count
GetBlockTransactionsStart ==
    /\ bpc = "start"
    /\ \E v \in {varint(PyFrom(blkRaw, 80))} :
          /\ bLeft' = IF v.ok THEN v.value ELSE 0
          /\ bOffset' = IF v.ok THEN v.size ELSE 0
          /\ bpc' = IF v.ok THEN "loop" ELSE "error"
    /\ UNCHANGED <<blkRaw, blkShape, bTransaction, bYielded, bTried, gtOffset, gtResult,
                   chainVars, scanVars, txVars, scriptVars, decVars>>

\* one pass of `for _ in range(n_transactions)`: the ladder, the yield when a
\* slice parsed, and offset += transaction.size, which raises
\* UnboundLocalError while no transaction has been bound
GetBlockTransactionsStep ==
    /\ bpc = "loop"
    /\ bLeft > 0
    /\ \E parsed \in {Ladder(PyFrom(blkRaw, 80), bOffset, 0)} :
       \E transaction \in {IF parsed.ok THEN <<parsed>> ELSE bTransaction} :
          /\ bTried' = Append(bTried, bOffset)
          /\ bYielded' = IF parsed.ok
                             THEN Append(bYielded, [at |-> bOffset, tx |-> parsed])
                             ELSE bYielded
          /\ bTransaction' = transaction
          /\ IF transaction = <<>>
                 THEN /\ bpc' = "error"
                      /\ UNCHANGED <<bOffset, bLeft>>
                 ELSE /\ bOffset' = Advance(bOffset, transaction[1].size)
                      /\ bLeft' = bLeft - 1
                      /\ bpc' = "loop"
    /\ UNCHANGED <<blkRaw, blkShape, gtOffset, gtResult,
                   chainVars, scanVars, txVars, scriptVars, decVars>>

\* the loop is over: the generator returns
GetBlockTransactionsEnd ==
    /\ bpc = "loop"
    /\ bLeft = 0
    /\ bpc' = "done"
    /\ UNCHANGED <<blkRaw, blkShape, bLeft, bOffset, bTransaction, bYielded, bTried,
                   gtOffset, gtResult, chainVars, scanVars, txVars, scriptVars, decVars>>

\* Blockchain.get_transaction from the block on: the ladder at
\* tx_idx.block_offset; the first transaction parsed is returned, else None
GetTransaction(block_offset) ==
    /\ bpc = "lookup"
    /\ gtOffset' = block_offset
    /\ \E transaction \in {Ladder(PyFrom(blkRaw, 80), block_offset, 0)} :
          gtResult' = IF transaction.ok THEN <<transaction>> ELSE <<>>
    /\ bpc' = "returned"
    /\ UNCHANGED <<blkRaw, blkShape, bLeft, bOffset, bTransaction, bYielded, bTried,
                   chainVars, scanVars, txVars, scriptVars, decVars>>

\* the lengths of the input scripts of the long transactions: the first
\* slice ends at the end of the transaction, in its lock time, in the
\* sequence number, in the script; the last needs a third slice
BigScripts == {962, 963, 978, 1000, 2000}

\* the transactions blocks are made of
TxKinds ==
    {[kind |-> "legacy", script |-> 1], [kind |-> "segwit", script |-> 1],
     [kind |-> "bad", script |-> 0]}
        \cup {[kind |-> "big", script |-> L] : L \in BigScripts}

\* a transaction with one input whose script has L bytes and one output
\* with an empty script: 62 + L bytes
BigTx(L) ==
    <<1, 0, 0, 0>> \o <<1>>
        \o Repeat(<<17>>, 32) \o <<0, 0, 0, 0>>
        \o <<253, L % 256, L \div 256>> \o [i \in 1..L |-> 81]
        \o <<255, 255, 255, 255>>
        \o <<1>> \o <<1, 0, 0, 0, 0, 0, 0, 0>> \o <<0>>
        \o <<0, 0, 0, 0>>

\* bytes no slice of which parses: the script of the one input is declared
\* with 2^30 - 1 bytes
BadTx ==
    <<1, 0, 0, 0>> \o <<1>>
        \o Repeat(<<17>>, 32) \o <<0, 0, 0, 0>>
        \o <<254, 255, 255, 255, 63>>

\* the bytes of a transaction of the block
SerKind(k) ==
    CASE k.kind = "legacy" ->
             Serialize([segwit |-> FALSE, n_in |-> 1, n_out |-> 1, items |-> 0,
                        len |-> k.script, wide |-> FALSE])
      [] k.kind = "segwit" ->
             Serialize([segwit |-> TRUE, n_in |-> 1, n_out |-> 1, items |-> 1,
                        len |-> k.script, wide |-> FALSE])
      [] k.kind = "big" -> BigTx(k.script)
      [] OTHER -> BadTx

RECURSIVE SerAll(_)
SerAll(shape) ==
    IF shape = <<>> THEN <<>> ELSE SerKind(Head(shape)) \o SerAll(Tail(shape))

\* a raw block: 80 bytes of header, the number of transactions, and them
RawBlock(declared, shape) == Repeat(<<0>>, 80) \o <<declared>> \o SerAll(shape)

\* sequences of at most n transactions
RECURSIVE ShapesUpTo(_)
ShapesUpTo(n) ==
    IF n = 0 THEN {<<>>}
    ELSE ShapesUpTo(n - 1)
             \cup {Append(sh, k) : sh \in {x \in ShapesUpTo(n - 1) : Len(x) = n - 1},
                                   k \in TxKinds}

\* where the k-th transaction of the shape starts in transaction_data
\* (k = Len(shape) + 1: where the last one ends)
StartOf(shape, k) == 1 + Len(SerAll(SubSeq(shape, 1, k - 1)))

\* block offsets a transaction index may hold: the starts of the
\* transactions, the count, and a place inside the first transaction
BlockOffsets(shape) == {StartOf(shape, k) : k \in 1..(Len(shape) + 1)} \cup {0, 2}

\* a block whose count is the number of its transactions or one more, read
\* through or looked into; or a block that ends with its header
InitBlock ==
    /\ \/ \E shape \in ShapesUpTo(MaxBlockTxs), extra \in 0..1 :
             /\ blkRaw = RawBlock(Len(shape) + extra, shape)
             /\ blkShape = shape
             /\ bpc \in {"start", "lookup"}
       \/ /\ blkRaw = Repeat(<<0>>, 80)
          /\ blkShape = <<>>
          /\ bpc = "start"
    /\ bLeft = 0
    /\ bOffset = 0
    /\ bTransaction = <<>>
    /\ bYielded = <<>>
    /\ bTried = <<>>
    /\ gtOffset = -1
    /\ gtResult = <<>>
    /\ ChainIdle
    /\ ScanIdle
    /\ TxIdle
    /\ ScriptIdle
    /\ DecIdle

NextBlock ==
    \/ GetBlockTransactionsStart
    \/ GetBlockTransactionsStep
    \/ GetBlockTransactionsEnd
    \/ \E block_offset \in BlockOffsets(blkShape) : GetTransaction(block_offset)

SpecBlock == InitBlock /\ [][NextBlock]_vars

(***************************************************************************)
(* Claims about the yielding loop of get_ordered_blocks.                   *)
(***************************************************************************)
\* the records the last call selected: the slice of the pruned list, taken
\* from its reverse when end < start
SelectedRange ==
    LET end1 == IF lastCall.end = <<>> THEN Len(res.kept) ELSE lastCall.end[1]
    IN  IF end1 < lastCall.start
            THEN PySlice(Reverse(res.kept), Len(res.kept) - lastCall.start,
                         Len(res.kept) - end1)
            ELSE PySlice(res.kept, lastCall.start, end1)

\* the record has no block data on disk
NoData(r) == r.file = -1 \/ r.data_pos = -1

\* the place in the selected range of the first record without data, one past
\* the end when there is none
FirstNoData ==
    IF \E i \in 1..Len(SelectedRange) : NoData(SelectedRange[i])
        THEN CHOOSE i \in 1..Len(SelectedRange) :
                 /\ NoData(SelectedRange[i])
                 /\ \A j \in 1..(i - 1) : ~NoData(SelectedRange[j])
        ELSE Len(SelectedRange) + 1

\* C15: get_ordered_blocks yields each record of the selected range up to,
\* and not including, the first one whose file or data_pos is -1, and nothing
\* after it, even where later records have data.
C15_StopsAtMissingData ==
    (Called /\ ~res.error) =>
        res.yielded = [i \in 1..(FirstNoData - 1) |->
                          [hash |-> SelectedRange[i].hash,
                           height |-> SelectedRange[i].height]]

\* C15: a call stopped at a record without data after yielding a block, with
\* a record that has data behind it in the range
C15_Witness ==
    /\ Called /\ ~res.error
    /\ FirstNoData > 1
    /\ FirstNoData < Len(SelectedRange)
    /\ ~NoData(SelectedRange[FirstNoData + 1])
    /\ Len(res.yielded) = FirstNoData - 1

\* the pruned list of the last call holds one record for each height from 0 on
OnePerHeight == \A i \in 1..Len(res.kept) : res.kept[i].height = i - 1

\* the last call was get_ordered_blocks(start, end) with end < start <= n,
\* n the length of the pruned list
ReverseCall ==
    /\ lastCall.end # <<>>
    /\ lastCall.end[1] < lastCall.start
    /\ lastCall.start <= Len(res.kept)

\* C16: on an index with one un-pruned record per height 0..n-1, all with
\* data, and end < start <= n, get_ordered_blocks(start, end) yields the
\* blocks of heights start-1 down to end, in strictly descending height:
\* the reverse of what get_ordered_blocks(end, start) yields.
C16_ReverseTraversal ==
    (Called /\ ~res.error /\ AllData /\ OnePerHeight /\ ReverseCall) =>
        /\ res.yielded =
             [i \in 1..(lastCall.start - lastCall.end[1]) |->
                 [hash |-> res.kept[lastCall.start - i + 1].hash,
                  height |-> lastCall.start - i]]
        /\ res.yielded =
             Reverse(OrderedBlocks(disk, res.loaded, lastCall.end[1],
                                   <<lastCall.start>>).yielded)

\* C16: a reverse call over a pruned fork that yielded two blocks or more
C16_Witness ==
    /\ Called /\ ~res.error /\ AllData /\ OnePerHeight /\ ReverseCall
    /\ res.orphans # <<>>
    /\ Len(res.yielded) >= 2
    /\ res.yielded[1].height > res.yielded[2].height

(***************************************************************************)
(* Claims about the fork probe.                                            *)
(***************************************************************************)
\* the places of the loaded index where the pruning loop calls the probe:
\* the record is at the height of the one before it
ForkPositions ==
    {i \in 2..Len(res.loaded) : res.loaded[i].height = res.loaded[i - 1].height}

\* chain_indexes of the probe called at place i
ProbedFrom(i) == SubSeq(res.loaded, i, Len(res.loaded))

\* what the probe called at place i gives
Probe(i) == IndexConfirmed(disk, ProbedFrom(i))

\* the k-th record the probe at place i visits is the first without data, and
\* fewer than num_confirmations records come before it: no chain can be full
MissingBeforeDecision(i, k) ==
    /\ k <= Len(ProbedFrom(i))
    /\ k <= num_confirmations
    /\ NoData(ProbedFrom(i)[k])
    /\ \A j \in 1..(k - 1) : ~NoData(ProbedFrom(i)[j])

\* every record the probe at place i visits has data, and no chain of
\* num_confirmations blocks starts at any of them
Exhausted(i) ==
    /\ \A j \in 1..Len(ProbedFrom(i)) : ~NoData(ProbedFrom(i)[j])
    /\ \A j \in 1..Len(ProbedFrom(i)) :
          ~ChainFrom(ProbedFrom(i)[j].hash, num_confirmations)

C17_WitnessExhausted ==
    /\ Called /\ ~res.error
    /\ \E i \in ForkPositions :
          /\ Exhausted(i)
          /\ Len(ProbedFrom(i)) >= 2
          /\ Probe(i) = "None"
          /\ res.orphans = <<res.loaded[i].hash>>

(***************************************************************************)
(* Claims about the transactions of a block.                               *)
(***************************************************************************)
\* raw_data[80:]
TransactionData == PyFrom(blkRaw, 80)

\* the block holds the transactions it counts, and each of them parses
WellFormed ==
    /\ Len(blkRaw) > 80
    /\ blkRaw[81] = Len(blkShape)
    /\ \A k \in 1..Len(blkShape) : blkShape[k].kind # "bad"

\* where the k-th transaction lies in raw_data[80:]: behind the count and the
\* transactions before it
OnDiskOffset(k) ==
    varint(TransactionData).size + Len(SerAll(SubSeq(blkShape, 1, k - 1)))

\* C18: from a block whose transactions all parse, get_block_transactions
\* yields exactly n_transactions transactions in the order they lie on disk,
\* the first read at 80 + the size of the count, the k-th at that plus the
\* sizes of the ones before it.
C18_EveryTransactionInOrder ==
    (WellFormed /\ bpc \in {"loop", "done", "error"}) =>
        /\ bpc # "error"
        /\ \A k \in 1..Len(bYielded) :
              /\ bYielded[k].at = OnDiskOffset(k)
              /\ bYielded[k].tx.raw = SerKind(blkShape[k])
              /\ bYielded[k].tx.size = Len(SerKind(blkShape[k]))
        /\ bpc = "done" => Len(bYielded) = varint(TransactionData).value

\* C18: a block of two transactions read to its end, the first of them
\* longer than the first slice
C18_Witness ==
    /\ WellFormed
    /\ bpc = "done"
    /\ Len(bYielded) = 2
    /\ bYielded[1].tx.size > 1024
    /\ bYielded[2].at = bYielded[1].at + bYielded[1].tx.size

\* C19: a transaction that no slice parses does not abort the iteration over
\* the block, at the first position either: no error is raised, the
\* transaction is skipped and the iteration runs to its end.
C19_FailureSkipped == bpc = "error" => bTried = <<>>

\* C19: the iteration went past a transaction that did not parse
C19_SkippedLater ==
    ~(/\ bpc = "done"
      /\ Len(bTried) > Len(bYielded)
      /\ bYielded # <<>>)

\* the offsets the ladder was run at
LadderOffsets == Range(bTried) \cup (IF gtOffset >= 0 THEN {gtOffset} ELSE {})

\* C20: where the rest of the buffer parses as it stands, to a transaction
\* of at most 1024 * 2^19 bytes, the retry ladder of get_block_transactions
\* and of get_transaction gives that transaction, and no slice of the ladder
\* parses to another one.
C20_LadderIsDirectParse ==
    \A o \in LadderOffsets :
        LET direct == Transaction(PyFrom(TransactionData, o))
        IN  (direct.ok /\ direct.size <= 1024 * (2 ^ 19)) =>
                /\ o = gtOffset => gtResult = <<direct>>
                /\ o \in Range(bTried) =>
                       \E k \in 1..Len(bYielded) :
                           bYielded[k].at = o /\ bYielded[k].tx = direct
                /\ \A j \in 0..19 :
                       LET sliced == Transaction(PySlice(TransactionData, o,
                                                         o + 1024 * (2 ^ j)))
                       IN  sliced.ok => sliced = direct

\* C20: get_transaction returned a transaction that only the third slice holds
C20_Witness ==
    /\ bpc = "returned"
    /\ gtResult # <<>>
    /\ gtResult[1].size > 2048
    /\ gtOffset > 1
    /\ gtResult[1] = Transaction(PyFrom(TransactionData, gtOffset))

\* C20: get_block_transactions yielded a transaction longer than the first slice
C20_WitnessYielded ==
    /\ bpc = "done"
    /\ \E k \in 1..Len(bYielded) :
          /\ bYielded[k].tx.size > 1024
          /\ bYielded[k].tx = Transaction(PyFrom(TransactionData, bYielded[k].at))

(***************************************************************************)
(* output.py: the script of an output of a parsed transaction.             *)
(***************************************************************************)
\* a transaction with one input and one output whose script is script
TxWithScript(script) ==
    <<1, 0, 0, 0>> \o <<1>> \o SerInput(0, FALSE) \o <<1>>
        \o <<1, 0, 0, 0, 0, 0, 0, 0>>
        \o (IF Len(script) < 253 THEN <<Len(script)>>
            ELSE <<253, Len(script) % 256, Len(script) \div 256>>)
        \o script
        \o <<0, 0, 0, 0>>

\* TxOutput.script of the first output: Script.from_bytes(self._script_raw)
ReadOutputScript ==
    /\ tpc = "parsed"
    /\ spc = "idle"
    /\ tx.n_outputs >= 1
    /\ outScript' = tx.outputs[1].script_raw
    /\ spc' = "new"
    /\ UNCHANGED <<outType, outAddresses, outMultisig, outValue, chainVars, scanVars, txVars,
                   decVars, blockVars>>

NextOutput ==
    \/ TransactionFromBytes
    \/ ReadOutputScript
    \/ ReadScriptType
    \/ ReadAddresses
    \/ ReadValue

\* a transaction whose output carries any of the scripts, well formed or not
InitOutput ==
    /\ \E script \in Scripts : txBuffer = TxWithScript(script)
    /\ txShape = NoShape
    /\ tx = NoTransaction
    /\ txVsize = <<>>
    /\ tpc = "new"
    /\ ChainIdle
    /\ ScanIdle
    /\ ScriptIdle
    /\ DecIdle
    /\ BlockIdle

SpecOutput == InitOutput /\ [][NextOutput]_vars

\* the push walk of the output's script runs past the end of its bytes
Malformed == spc # "idle" /\ ~Walk(outScript, 0, <<>>).ok

\* C23: a malformed script is represented, not raised: operations is the
\* empty list, value is 'INVALID_SCRIPT', script_type is 'invalid', addresses
\* is empty, and the transaction that holds the script parses, with the size
\* it has when the script is well formed.
C23_InvalidRepresented ==
    Malformed =>
        /\ operations(outScript) = <<>>
        /\ spc = "value_read" => outValue = <<"INVALID_SCRIPT">>
        /\ spc \in {"read", "addressed"} => outType = "invalid"
        /\ spc = "addressed" => outAddresses = [error |-> "", list |-> <<>>]
        /\ tx.ok
        /\ tx.outputs[1].script_raw = outScript
        /\ tx.size = Len(txBuffer)
        /\ tx.size = Transaction(TxWithScript([i \in 1..Len(outScript) |-> 81])).size

\* C23: the addresses of an output were read whose script ends inside a push
C23_Witness ==
    /\ Malformed
    /\ Len(outScript) >= 2
    /\ spc = "addressed"
    /\ outType = "invalid"
    /\ tx.ok

\* C23: the value of a malformed script was read
C23_WitnessValue ==
    /\ Malformed
    /\ spc = "value_read"
    /\ outValue = <<"INVALID_SCRIPT">>

(***************************************************************************)
(* Claims about multisig scripts.                                          *)
(***************************************************************************)
\* the operations list is a multisig script: at least 4 items, op[0] an
\* integer M, op[1..1+M] all public keys, op[-2] an integer N >= M, and
\* op[-1] OP_CHECKMULTISIG
MultisigShape ==
    /\ Len(Ops) >= 4
    /\ Ops[1].int
    /\ \A i \in 1..Ops[1].n : i + 1 <= Len(Ops) /\ is_public_key(Ops[i + 1])
    /\ Ops[Len(Ops) - 1].int
    /\ Ops[Len(Ops) - 1].n >= Ops[1].n
    /\ Ops[Len(Ops)] = IntOp(OP_CHECKMULTISIG)

\* C21: Script.is_multisig returns True exactly for the multisig shape and
\* False, without raising, for every other operations list: an op[0] larger
\* than the number of operations and a data push at op[-2] included.
C21_MultisigExactly ==
    spc = "multisig_read" => outMultisig = Bool(MultisigShape)

\* C21: is_multisig raised on a count larger than the operations there are
C21_CountTooLarge ==
    ~(spc = "multisig_read" /\ outMultisig = "IndexError")

\* C21: is_multisig raised on a data push in the place of N
C21_PushForN ==
    ~(spc = "multisig_read" /\ outMultisig = "TypeError")

\* C22: for an output classified multisig with M = op[0] and N = op[-2],
\* addresses holds exactly M addresses, one for each public key in slots
\* 1..1+M in slot order, each built from the public key; also when N > M.
C22_OneAddressPerKey ==
    (spc = "addressed" /\ outType = "multisig") =>
        /\ outAddresses.error = ""
        /\ outAddresses.list = [i \in 1..Ops[1].n |-> from_public_key(Ops[i + 1])]

\* C22: N = M and the addresses are the M keys
C22_EqualCounts ==
    ~(/\ spc = "addressed" /\ outType = "multisig"
      /\ Ops[1].n = 2 /\ Ops[Len(Ops) - 1].n = 2
      /\ outAddresses.list = [i \in 1..2 |-> from_public_key(Ops[i + 1])])

(***************************************************************************)
(* index.py: DBBlockIndex, a record of the block index store.              *)
(***************************************************************************)
\* bytes a generated record holds between its tx-count and its header
MaxIndexFields == 4

BLOCK_HAVE_DATA == 8

BLOCK_HAVE_UNDO == 16

\* status & bit, for a bit that is a power of two
HasBit(status, bit) == (status \div bit) % 2 = 1

\* a record of any length but that of its fields and a header passes
InvalidBlockShort(pos, raw_data) == pos + 80 > Len(raw_data)

\* if _pos + 80 != len(raw_data): raise IOError('Invalid block.')
InvalidBlock(pos, raw_data) == pos + 80 # Len(raw_data)

\* a DBBlockIndex that could not be built
NoIndex ==
    [ok |-> FALSE, height |-> 0, status |-> 0, n_tx |-> 0, file |-> <<>>,
     data_pos |-> <<>>, undo_pos |-> <<>>, version |-> 0, prev_hash |-> <<>>,
     merkle_root |-> <<>>, nonce |-> 0]

\* DBBlockIndex(block_hash, raw_data): the fields read from raw_data. A field
\* is <<v>> once assigned and <<>> while the object has no such attribute;
\* _leveldb_varint(raw_data[_pos:]) is the loop started at byte _pos
DBBlockIndex(raw_data) ==
    LET unused == LeveldbFrom(raw_data, 0, 0)
        height == LeveldbFrom(raw_data, unused.size, 0)
        status == LeveldbFrom(raw_data, height.size, 0)
        n_tx == LeveldbFrom(raw_data, status.size, 0)
        any == HasBit(status.value, BLOCK_HAVE_DATA) \/ HasBit(status.value, BLOCK_HAVE_UNDO)
        file == IF any THEN LeveldbFrom(raw_data, n_tx.size, 0)
                ELSE [ok |-> TRUE, value |-> -1, size |-> n_tx.size]
        data_pos == IF HasBit(status.value, BLOCK_HAVE_DATA)
                    THEN LeveldbFrom(raw_data, file.size, 0)
                    ELSE [ok |-> TRUE, value |-> -1, size |-> file.size]
        undo_pos == IF HasBit(status.value, BLOCK_HAVE_UNDO)
                    THEN LeveldbFrom(raw_data, data_pos.size, 0)
                    ELSE [ok |-> TRUE, value |-> 0, size |-> data_pos.size]
        header == PyFrom(raw_data, Len(raw_data) - 80)
    IN  IF ~unused.ok THEN NoIndex
        ELSE IF ~height.ok THEN NoIndex
        ELSE IF ~status.ok THEN NoIndex
        ELSE IF ~n_tx.ok THEN NoIndex
        ELSE IF ~file.ok THEN NoIndex
        ELSE IF ~data_pos.ok THEN NoIndex
        ELSE IF ~undo_pos.ok THEN NoIndex
        ELSE IF InvalidBlock(undo_pos.size, raw_data) THEN NoIndex
        ELSE [ok |-> TRUE,
              height |-> height.value,
              status |-> status.value,
              n_tx |-> n_tx.value,
              file |-> <<file.value>>,
              data_pos |-> <<data_pos.value>>,
              undo_pos |-> IF HasBit(status.value, BLOCK_HAVE_UNDO)
                           THEN <<undo_pos.value>> ELSE <<>>,
              version |-> UnpackLE32(PySlice(header, 0, 4)),
              prev_hash |-> Reverse(PySlice(header, 4, 36)),
              merkle_root |-> Reverse(PySlice(header, 36, 68)),
              nonce |-> UnpackLE32(PySlice(header, 76, 80))]

\* DBBlockIndex(hexstring(k[1:]), v), called on the value of one key
DBBlockIndexCall ==
    /\ dpc = "index"
    /\ decResult' = DBBlockIndex(decData)
    /\ dpc' = "index_done"
    /\ UNCHANGED <<decData, chainVars, scanVars, txVars, scriptVars, blockVars>>

NextIndex == DBBlockIndexCall

\* the status varints of the generated records: every combination of the data
\* and undo bits, alone and among the validity bits, and 128 + 29 in two
\* bytes
Statuses == {<<0>>, <<3>>, <<8>>, <<16>>, <<24>>, <<13>>, <<21>>, <<29>>, <<128, 29>>}

\* continuation bytes of a generated record: a varint of more than four
\* bytes before its last passes 2^31
MaxContinued == 3

\* a record: the varints unused, height, status and tx-count, up to
\* MaxIndexFields bytes, then 80 bytes, all 0 or all 255
InitIndex ==
    /\ \E height \in {<<0>>, <<128, 0>>}, status \in Statuses, fill \in {0, 255} :
          \E fields \in BytesUpTo({0, 5, 129}, MaxIndexFields) :
              /\ Cardinality({i \in 1..Len(fields) : fields[i] = 129}) <= MaxContinued
              /\ decData = <<1>> \o height \o status \o <<1>> \o fields
                          \o [i \in 1..80 |-> fill]
    /\ decResult = NoResult
    /\ dpc = "index"
    /\ ChainIdle
    /\ ScanIdle
    /\ TxIdle
    /\ ScriptIdle
    /\ BlockIdle

SpecIndex == InitIndex /\ [][NextIndex]_vars

(***************************************************************************)
(* Claims about DBBlockIndex.                                              *)
(***************************************************************************)
\* C25: in every decoded record data_pos is -1 when status bit 0x08 is clear,
\* undo_pos is -1 when status bit 0x10 is clear and file is -1 when both are
\* clear; a position whose bit is set is a decoded varint, 0 or more; file,
\* data_pos and undo_pos are all defined.
C25_SentinelFields ==
    (dpc = "index_done" /\ decResult.ok) =>
        /\ decResult.file # <<>> /\ decResult.data_pos # <<>> /\ decResult.undo_pos # <<>>
        /\ ~HasBit(decResult.status, 8) => decResult.data_pos = <<-1>>
        /\ ~HasBit(decResult.status, 16) => decResult.undo_pos = <<-1>>
        /\ (~HasBit(decResult.status, 8) /\ ~HasBit(decResult.status, 16))
              => decResult.file = <<-1>>
        /\ HasBit(decResult.status, 8) => decResult.data_pos[1] >= 0
        /\ HasBit(decResult.status, 16) => decResult.undo_pos[1] >= 0

\* C25, the part the decoder keeps: file and data_pos are defined in every
\* decoded record, -1 without their bits and a varint with them, and undo_pos
\* is a varint when bit 0x10 is set
C25_FileAndDataPos ==
    (dpc = "index_done" /\ decResult.ok) =>
        /\ decResult.file # <<>> /\ decResult.data_pos # <<>>
        /\ ~HasBit(decResult.status, 8) => decResult.data_pos = <<-1>>
        /\ (~HasBit(decResult.status, 8) /\ ~HasBit(decResult.status, 16))
              => decResult.file = <<-1>>
        /\ HasBit(decResult.status, 8) => decResult.data_pos[1] >= 0
        /\ HasBit(decResult.status, 16) =>
              decResult.undo_pos # <<>> /\ decResult.undo_pos[1] >= 0 /\ decResult.file[1] >= 0

\* a decoded record with block data and without undo data
C25_DataWithoutUndo ==
    /\ dpc = "index_done" /\ decResult.ok
    /\ HasBit(decResult.status, 8) /\ ~HasBit(decResult.status, 16)
    /\ decResult.undo_pos = <<>>

\* the byte after the varint that starts at pos, -1 when the data ends first
RECURSIVE VarintEnd(_, _)
VarintEnd(raw_data, pos) ==
    IF pos < 0 \/ pos >= Len(raw_data) THEN -1
    ELSE IF raw_data[pos + 1] < 128 THEN pos + 1
    ELSE VarintEnd(raw_data, pos + 1)

\* the byte after n varints that start at pos, -1 when the data ends first
RECURSIVE SkipVarints(_, _, _)
SkipVarints(raw_data, pos, n) ==
    IF n = 0 THEN pos ELSE SkipVarints(raw_data, VarintEnd(raw_data, pos), n - 1)

\* the varints the status of a record selects: unused, height, status and
\* tx-count, the file with either bit, a position with each bit
FieldCount(status) ==
    4 + (IF HasBit(status, 8) \/ HasBit(status, 16) THEN 1 ELSE 0)
      + (IF HasBit(status, 8) THEN 1 ELSE 0)
      + (IF HasBit(status, 16) THEN 1 ELSE 0)

\* the status a record holds as its third varint
StatusOf(raw_data) == LeveldbFrom(raw_data, SkipVarints(raw_data, 0, 2), 0).value

\* the bytes that remain after the varints the status selects, -1 when the
\* data ends inside them
Remaining(raw_data) ==
    IF SkipVarints(raw_data, 0, 3) = -1 THEN -1
    ELSE IF SkipVarints(raw_data, 0, FieldCount(StatusOf(raw_data))) = -1 THEN -1
    ELSE Len(raw_data) - SkipVarints(raw_data, 0, FieldCount(StatusOf(raw_data)))

\* C26: DBBlockIndex decoding gives a record exactly when 80 bytes remain
\* after the varints its status selects; with more or fewer bytes it raises
\* and gives no record.
C26_EightyBytesRemain ==
    dpc = "index_done" => (decResult.ok <=> Remaining(decData) = 80)

\* a record with both bits set and one byte more than its header refused
C26_Witness ==
    /\ dpc = "index_done"
    /\ ~decResult.ok
    /\ Remaining(decData) = 81
    /\ HasBit(StatusOf(decData), 8) /\ HasBit(StatusOf(decData), 16)

\* a record with both bits set and three positions decoded
C26_WitnessDecoded ==
    /\ dpc = "index_done"
    /\ decResult.ok
    /\ decResult.status = 29
    /\ decResult.undo_pos = <<5>>

\* a record whose last varint runs into its header refused
C26_WitnessShort ==
    /\ dpc = "index_done"
    /\ ~decResult.ok
    /\ Remaining(decData) \in 0..79

(***************************************************************************)
(* blockchain.py: __get_block_indexes over a store of undecoded records.   *)
(***************************************************************************)
\* keys of a generated store under the prefix 'b'
MaxStored == 3
\* calls of __get_block_indexes in a scenario
MaxLoads == 3

\* the value of a block key: both status bits, file 0, data_pos 5; its
\* undo_pos is left out when the record is cut, so that the header is one
\* byte short once the varints are read
RawRecord(height, cut) ==
    <<1, height, 29, 1, 0, 5>> \o (IF cut THEN <<>> ELSE <<5>>) \o [i \in 1..80 |-> 0]

\* the entry of a block: key 'b' and a hash of one byte
BlockEntry(hash, height, cut) == [key |-> <<98, hash>>, value |-> RawRecord(height, cut)]

\* an entry under the prefix 'f', a file-information record
FileEntry == [key |-> <<102, 0>>, value |-> <<1, 1, 1>>]

\* DBBlockIndex(hexstring(k[1:]), v): the fields get_ordered_blocks reads
IndexOf(k, index) ==
    [hash |-> Reverse(Tail(k)), height |-> index.height, status |-> index.status,
     file |-> index.file, data_pos |-> index.data_pos]

\* [DBBlockIndex(hexstring(k[1:]), v) for k, v in db.iterator()
\*  if k[0] == ord('b')], from the i-th entry on; the first record that does
\* not decode ends the comprehension with its error
RECURSIVE ComprehendFrom(_, _, _)
RECURSIVE ComprehendNext(_, _, _, _)
ComprehendNext(index, entries, i, acc) ==
    IF ~index.ok THEN [ok |-> FALSE, list |-> acc]
    ELSE ComprehendFrom(entries, i + 1, Append(acc, IndexOf(entries[i].key, index)))

ComprehendFrom(entries, i, acc) ==
    IF i > Len(entries) THEN [ok |-> TRUE, list |-> acc]
    ELSE IF entries[i].key[1] # 98 THEN ComprehendFrom(entries, i + 1, acc)
    ELSE ComprehendNext(DBBlockIndex(entries[i].value), entries, i, acc)

\* db.close() stands behind the comprehension: an error raised in it leaves
\* the handle open
LeftOpen(ok) == IF ok THEN 0 ELSE 1

\* Blockchain.__get_block_indexes(index), run to its return or its error.
\* While a handle of an earlier failed load is open, plyvel.DB either finds
\* the store locked and raises, or the interpreter has collected the handle
\* by then and the store opens
GetBlockIndexesCall(index) ==
    /\ callsLeft > 0
    /\ callsLeft' = callsLeft - 1
    /\ lastCall' = [NoCall EXCEPT !.index = index]
    /\ IF indexPath = index
         THEN /\ res' = [outcome |-> "returned", list |-> blockIndexes[1], opened |-> FALSE]
              /\ UNCHANGED <<blockIndexes, indexPath, handles>>
         ELSE \E locked \in (IF handles > 0 THEN BOOLEAN ELSE {FALSE}) :
              \E c \in {ComprehendFrom(db[index], 1, <<>>)} :
                 IF locked
                   THEN /\ res' = [outcome |-> "raised", list |-> <<>>, opened |-> FALSE]
                        /\ UNCHANGED <<blockIndexes, indexPath, handles>>
                 ELSE IF ~c.ok
                   THEN /\ res' = [outcome |-> "raised", list |-> <<>>, opened |-> TRUE]
                        /\ handles' = handles + LeftOpen(c.ok)
                        /\ UNCHANGED <<blockIndexes, indexPath>>
                 ELSE /\ res' = [outcome |-> "returned", list |-> SortByHeight(c.list),
                                 opened |-> TRUE]
                      /\ handles' = handles + LeftOpen(c.ok)
                      /\ blockIndexes' = <<SortByHeight(c.list)>>
                      /\ indexPath' = index
    /\ UNCHANGED <<db, disk, cacheFiles, cacheSrc, scanVars, txVars, scriptVars, decVars, blockVars>>

NextLoad == \E index \in {"idx1", "idx2"} : GetBlockIndexesCall(index)

\* the stores: up to MaxStored block keys in key order, each record whole or
\* cut, of height 0 or 1
BlockEntries ==
    UNION {[1..n -> [height : 0..1, cut : BOOLEAN]] : n \in 0..MaxStored}

StoreOfEntries(es, withFile) ==
    [i \in 1..Len(es) |-> BlockEntry(i, es[i].height, es[i].cut)]
        \o (IF withFile THEN <<FileEntry>> ELSE <<>>)

\* two stores: idx1 any store, idx2 one record, whole or cut
InitLoad ==
    /\ \E es \in BlockEntries, withFile \in BOOLEAN, cut \in BOOLEAN :
          db = [p \in {"idx1", "idx2"} |->
                  IF p = "idx1" THEN StoreOfEntries(es, withFile)
                  ELSE <<BlockEntry(9, 0, cut)>>]
    /\ disk = <<>>
    /\ FreshObject
    /\ callsLeft = MaxLoads
    /\ ScanIdle
    /\ TxIdle
    /\ ScriptIdle
    /\ DecIdle
    /\ BlockIdle

SpecLoad == InitLoad /\ [][NextLoad]_vars

(***************************************************************************)
(* Claims about __get_block_indexes.                                       *)
(***************************************************************************)
\* C27: whenever __get_block_indexes has exited, by return or by error, every
\* store it opened is closed, and a load that fails leaves the memoized
\* blockIndexes and indexPath as they were.
C27_StoreClosedAfterLoad ==
    [][/\ handles' = 0
       /\ res'.outcome = "raised" => UNCHANGED <<blockIndexes, indexPath>>]_vars

\* C27, the part the load keeps: a load that fails leaves blockIndexes and
\* indexPath as they were, and a load that returns leaves no handle behind
C27_MemoKeptOnFailure ==
    [][/\ res'.outcome = "raised" => UNCHANGED <<blockIndexes, indexPath>>
       /\ res'.outcome = "returned" => handles' = handles]_vars

\* a load that failed on a record behind one that decoded, after a load of
\* the other store had filled the memo: the handle is open, the memo kept
C27_OpenAfterFailure ==
    /\ res # NoRes
    /\ res.outcome = "raised" /\ res.opened
    /\ lastCall.index = "idx1"
    /\ Len(db["idx1"]) >= 2 /\ DBBlockIndex(db["idx1"][1].value).ok
    /\ indexPath = "idx2"
    /\ handles = 1

====
